---------------------------- MODULE Spec2Model ----------------------------
(***************************************************************************)
(* Voice assistant: the orchestrator of main.py (VoiceAssistant), the      *)
(* backend client of core/ai_engine.py (AIEngine) and the detector of      *)
(* core/wake_word.py, as a state machine.                                  *)
(*                                                                         *)
(* Texts are sequences of one-character strings, so that slicing, prefix   *)
(* tests, substring tests and the regular expressions of the sanitizer are *)
(* computed character by character as the Python code computes them.       *)
(***************************************************************************)
EXTENDS Integers, Sequences, FiniteSets, TLC

(***************************************************************************)
(* Bounds of the model.                                                    *)
(***************************************************************************)
\* configured history windows 1..MaxWindow are explored besides the default
MaxWindow == 3
\* successful exchanges explored per run of the engine on its own
MaxExchanges == 3
\* successful exchanges explored per run of the whole assistant
MaxTurns == 1

(***************************************************************************)
(* Python text primitives.                                                 *)
(***************************************************************************)
UpperLetters == <<"A","B","C","D","E","F","G","H","I","J","K","L","M",
                  "N","O","P","Q","R","S","T","U","V","W","X","Y","Z">>
LowerLetters == <<"a","b","c","d","e","f","g","h","i","j","k","l","m",
                  "n","o","p","q","r","s","t","u","v","w","x","y","z">>
Digits == {"0","1","2","3","4","5","6","7","8","9"}
Whitespace == {" ", "\t", "\n", "\r"}

IsUpper(c) == \E i \in 1..26 : UpperLetters[i] = c
IsLower(c) == \E i \in 1..26 : LowerLetters[i] = c
IsLetter(c) == IsUpper(c) \/ IsLower(c)

\* str.lower() on one character
LowerChar(c) ==
    IF IsUpper(c) THEN LowerLetters[CHOOSE i \in 1..26 : UpperLetters[i] = c]
    ELSE c

\* str.lower()
Lower(s) == [i \in 1..Len(s) |-> LowerChar(s[i])]

\* s[a:b] for 0 <= a, b (Python, 0-based, end exclusive)
Slice(s, a, b) ==
    LET lo == IF a > Len(s) THEN Len(s) ELSE a
        hi == IF b > Len(s) THEN Len(s) ELSE b
    IN IF hi <= lo THEN << >> ELSE SubSeq(s, lo + 1, hi)

\* s[start:] for any integer start (a negative start counts from the end)
SliceFrom(s, start) ==
    LET st == IF start < 0
              THEN (IF Len(s) + start < 0 THEN 0 ELSE Len(s) + start)
              ELSE start
    IN Slice(s, st, Len(s))

\* str.startswith
StartsWith(s, p) == Len(p) <= Len(s) /\ SubSeq(s, 1, Len(p)) = p

\* str.endswith
EndsWith(s, p) ==
    Len(p) <= Len(s) /\ SubSeq(s, Len(s) - Len(p) + 1, Len(s)) = p

\* the Python test `p in s` on strings
Contains(s, p) ==
    \E i \in 0..(Len(s) - Len(p)) : SubSeq(s, i + 1, i + Len(p)) = p

RECURSIVE LStripSet(_, _)
LStripSet(s, cs) ==
    IF s # << >> /\ Head(s) \in cs THEN LStripSet(Tail(s), cs) ELSE s

RECURSIVE RStripSet(_, _)
RStripSet(s, cs) ==
    IF s # << >> /\ s[Len(s)] \in cs
    THEN RStripSet(SubSeq(s, 1, Len(s) - 1), cs) ELSE s

\* str.strip(chars)
StripSet(s, cs) == RStripSet(LStripSet(s, cs), cs)

\* str.strip()
Strip(s) == StripSet(s, Whitespace)

\* re.sub(c+, '', s): every occurrence of the character is removed
RemoveChar(s, c) == SelectSeq(s, LAMBDA x : x # c)

\* str.split(sep) for a one-character separator
RECURSIVE SplitOn(_, _, _, _)
SplitOn(s, sep, cur, acc) ==
    IF s = << >> THEN Append(acc, cur)
    ELSE IF Head(s) = sep THEN SplitOn(Tail(s), sep, << >>, Append(acc, cur))
    ELSE SplitOn(Tail(s), sep, Append(cur, Head(s)), acc)

SplitLines(s) == SplitOn(s, "\n", << >>, << >>)

\* ' '.join(parts)
RECURSIVE JoinSpace(_)
JoinSpace(parts) ==
    IF parts = << >> THEN << >>
    ELSE IF Len(parts) = 1 THEN parts[1]
    ELSE parts[1] \o <<" ">> \o JoinSpace(Tail(parts))


(***************************************************************************)
(* AIEngine._extract_final_answer: the response sanitizer.                 *)
(***************************************************************************)
\* the canned filler "I'm here to help!"
Filler ==
    <<"I","'","m"," ","h","e","r","e"," ","t","o"," ","h","e","l","p","!">>

\* the bounds {5,100} of the quoted-answer pattern and the 200-character cap
MinQuoteLen == 5
MaxQuoteLen == 100
MaxAnswerLen == 200

Quote == "\""

\* index of the first quote character after position i, 0 when there is none
NextQuote(s, i) ==
    IF \E j \in (i + 1)..Len(s) : s[j] = Quote
    THEN CHOOSE j \in (i + 1)..Len(s) :
             s[j] = Quote /\ \A k \in (i + 1)..(j - 1) : s[k] # Quote
    ELSE 0

\* re.findall(r'"([^"]{5,100})"', text): leftmost non-overlapping matches
RECURSIVE QuotedSpans(_, _, _)
QuotedSpans(s, i, acc) ==
    IF i > Len(s) THEN acc
    ELSE IF s[i] # Quote THEN QuotedSpans(s, i + 1, acc)
    ELSE LET j == NextQuote(s, i)
         IN IF j = 0 THEN acc
            ELSE IF j - i - 1 >= MinQuoteLen /\ j - i - 1 <= MaxQuoteLen
                 THEN QuotedSpans(s, j + 1, Append(acc, SubSeq(s, i + 1, j - 1)))
                 ELSE QuotedSpans(s, i + 1, acc)

\* the alternatives of the first thinking pattern, matched with re.IGNORECASE
ThinkingWords ==
    { <<"i"," ","t","h","i","n","k">>, <<"i"," ","s","h","o","u","l","d">>,
      <<"l","e","t"," ","m","e">>, <<"i"," ","n","e","e","d">>,
      <<"i","'","l","l">>, <<"i"," ","w","i","l","l">>,
      <<"s","i","n","c","e">>, <<"g","i","v","e","n">>,
      <<"t","h","e"," ","u","s","e","r">>, <<"d","r","a","f","t">>,
      <<"o","p","t","i","o","n">>, <<"a","p","p","r","o","a","c","h">>,
      <<"c","o","n","s","t","r","a","i","n","t">>, <<"r","u","l","e">>,
      <<"s","t","e","p">>, <<"f","i","r","s","t">>, <<"w","a","i","t">>,
      <<"h","m","m">>, <<"o","k"," ","s","o">>, <<"s","o"," ","i">>,
      <<"m","y"," ","r","e","s","p","o","n","s","e">>,
      <<"i","'","m"," ","g","o","i","n","g"," ","t","o">>,
      <<"t","h","i","n","k","i","n","g">>,
      <<"r","e","a","s","o","n","i","n","g">>,
      <<"c","o","n","s","i","d","e","r","i","n","g">> }

\* the literal prefixes tested on the lower-cased line
skip_starts ==
    { <<"i"," ","t","h","i","n","k">>, <<"i"," ","s","h","o","u","l","d">>,
      <<"l","e","t"," ","m","e">>, <<"s","i","n","c","e">>,
      <<"g","i","v","e","n">>, <<"t","h","e"," ","u","s","e","r">>,
      <<"d","r","a","f","t">>, <<"o","p","t","i","o","n">>,
      <<"s","o"," ","i">>, <<"i"," ","n","e","e","d">>, <<"i","'","l","l">>,
      <<"w","a","i","t">>, <<"h","m","m">>, <<"o","k">>,
      <<"s","t","e","p">>, <<"f","i","r","s","t">>,
      <<"c","o","n","s","t","r","a","i","n","t">>, <<"r","u","l","e">>,
      <<"a","p","p","r","o","a","c","h">>,
      <<"m","y"," ","r","e","s","p","o","n","s","e">> }

\* number of leading characters of s that belong to the set cs
RECURSIVE LeadingRun(_, _)
LeadingRun(s, cs) ==
    IF s # << >> /\ Head(s) \in cs THEN 1 + LeadingRun(Tail(s), cs) ELSE 0

Letters == {UpperLetters[i] : i \in 1..26} \cup {LowerLetters[i] : i \in 1..26}

\* re.match over the four thinking_patterns (line is stripped and non-empty)
MatchesThinkingPattern(line) ==
    \/ \E w \in ThinkingWords : StartsWith(Lower(line), w)
    \/ LET k == LeadingRun(line, Digits)
       IN k >= 1 /\ Len(line) > k /\ line[k + 1] = "."
    \/ line[1] \in {"-", "*"}
    \/ LET k == LeadingRun(line, Letters)
       IN k >= 2 /\ Len(line) > k /\ line[k + 1] = ":"

\* a stripped line is kept when it is non-blank and does not look like thinking
KeepLine(line) ==
    /\ line # << >>
    /\ ~MatchesThinkingPattern(line)
    /\ ~\E p \in skip_starts : StartsWith(Lower(line), p)

\* clean_lines of the text
CleanLines(text) ==
    LET lines == SplitLines(text)
        stripped == [i \in 1..Len(lines) |-> Strip(lines[i])]
    IN SelectSeq(stripped, KeepLine)

LooksLikeAnswer(line) == Len(line) > 3 /\ ~EndsWith(line, <<":">>)

\* the first line of clean_lines whatever it looks like
PickLineFirst(clean) == clean[1]

\* the for/else over clean_lines: the first answer-like line, else the first
PickLine(clean) ==
    IF \E i \in 1..Len(clean) : LooksLikeAnswer(clean[i])
    THEN clean[CHOOSE i \in 1..Len(clean) :
                   /\ LooksLikeAnswer(clean[i])
                   /\ \A k \in 1..(i - 1) : ~LooksLikeAnswer(clean[k])]
    ELSE clean[1]

\* the final cleanup: asterisks and hashes removed, stripped, quotes stripped
Cleanup(text) ==
    StripSet(Strip(RemoveChar(RemoveChar(text, "*"), "#")), {Quote, "'"})

SentenceEnd == {".", "!", "?"}

\* re.split(r'(?<=[.!?])\s+', text)
RECURSIVE SplitSentences(_, _, _, _)
SplitSentences(s, i, cur, acc) ==
    IF i > Len(s) THEN Append(acc, cur)
    ELSE IF s[i] \in Whitespace /\ i > 1 /\ s[i - 1] \in SentenceEnd
         THEN LET run == LeadingRun(SubSeq(s, i, Len(s)), Whitespace)
              IN SplitSentences(s, i + run, << >>, Append(acc, cur))
         ELSE SplitSentences(s, i + 1, Append(cur, s[i]), acc)

\* the length rule: over the cap, the first two sentences joined by a space
LimitLength(text) ==
    IF Len(text) > MaxAnswerLen
    THEN JoinSpace(Slice(SplitSentences(text, 1, << >>, << >>), 0, 2))
    ELSE text

\* _extract_final_answer on a string
ExtractFinalAnswer(text) ==
    IF text = << >> THEN Filler
    ELSE LET quotes == QuotedSpans(text, 1, << >>)
         IN IF quotes # << >> THEN Strip(quotes[Len(quotes)])
            ELSE LET clean == CleanLines(text)
                     chosen == IF clean # << >> THEN PickLine(clean) ELSE text
                     limited == LimitLength(Cleanup(chosen))
                 IN IF limited = << >> THEN Filler ELSE limited


(***************************************************************************)
(* AIEngine: conversation history, request building and get_response.      *)
(***************************************************************************)
VARIABLES
    history,          \* AIEngine.history: sequence of Message records
    max_history,      \* AIEngine.max_history
    ai_pc,            \* where the get_response coroutine stands
    ai_call,          \* the arguments of the get_response call in progress
    sent,             \* the POST requests of the call in progress, in order
    replies,          \* what the backend answered to them, in order
    ai_result,        \* the AIResponse the call returns
    history_at_call   \* the history as it was when the call started

aiVars == <<history, max_history, ai_pc, ai_call, sent, replies, ai_result,
            history_at_call>>

\* self.max_history = 20
DefaultMaxHistory == 20
\* screen_context[:200]
ScreenContextCap == 200

\* system_prompt, abbreviated to its first words
SystemPrompt ==
    <<"Y","o","u"," ","a","r","e"," ","N","e","b","u","l","a">>

Message(role, content) == [role |-> role, content |-> content]

\* Optional[str]: None, or a string
None == [some |-> FALSE, text |-> << >>]
Some(text) == [some |-> TRUE, text |-> text]
\* the Python truth value of an Optional[str]
Truthy(opt) == opt.some /\ opt.text # << >>

ScreenPrefix ==
    <<"[","S","c","r","e","e","n"," ","c","o","n","t","e","x","t",":"," ">>

\* the content of the current user message
UserContent(user_input, screen_context) ==
    IF Truthy(screen_context)
    THEN ScreenPrefix \o Slice(screen_context.text, 0, ScreenContextCap)
             \o <<"]", "\n">> \o user_input
    ELSE user_input

\* a window that keeps the oldest n turns instead: self.history[:n]
HistoryWindowOldest(hist, n) == Slice(hist, 0, n)

\* the history turns of a request: self.history[-self.max_history:]
HistoryWindow(hist, n) == SliceFrom(hist, 0 - n)

\* _build_messages
BuildMessages(hist, n, user_input, screen_context) ==
    <<Message("system", SystemPrompt)>>
        \o HistoryWindow(hist, n)
        \o <<Message("user", UserContent(user_input, screen_context))>>

\* the prompt of the /generate request
GeneratePrompt(user_input) ==
    SystemPrompt \o <<"\n", "\n", "U", "s", "e", "r", ":", " ">> \o user_input
        \o <<"\n", "\n", "A", "s", "s", "i", "s", "t", "a", "n", "t", ":">>

ChatRequest(messages) ==
    [endpoint |-> "chat", messages |-> messages, prompt |-> << >>]
GenerateRequest(prompt) ==
    [endpoint |-> "generate", messages |-> << >>, prompt |-> prompt]

(***************************************************************************)
(* What the backend can answer to one POST.  A transport failure raises;   *)
(* otherwise there is a status code and a body.  A body is what            *)
(* response.json() makes of it: not JSON at all, an object with a          *)
(* "message" field (whose "content" is a string, null, or another type,    *)
(* or which is no object with a "content"), an object with a "response"    *)
(* field, or an object with neither (text is then str(data)).              *)
(***************************************************************************)
RawPlain ==
    <<"I","t"," ","i","s"," ","5",".">>
RawQuoted ==
    <<"O","k"," ","\"","P","a","r","i","s","\"">>
RawThinking ==
    <<"H","m","m">>
RawTexts == {RawPlain, RawQuoted, RawThinking, << >>}

StrOfData ==
    <<"{","'","e","r","r","o","r","'",":"," ","1","}">>

Body(shape, ctype, text) == [shape |-> shape, ctype |-> ctype, text |-> text]

NoBody == Body("none", "none", << >>)

Bodies ==
    {Body("message", "str", r) : r \in {RawQuoted, << >>}}
        \cup {Body("response", "str", RawPlain)}
        \cup {Body("message", "null", << >>), Body("message", "number", << >>),
              Body("message_malformed", "none", << >>),
              Body("not_json", "none", << >>),
              Body("other", "str", StrOfData)}

(***************************************************************************)
(* Raw texts for the sanitizer: every text of a few characters over the    *)
(* characters it treats specially, every text of a few lines drawn from    *)
(* lines of each kind, quoted spans of each length class after prefixes    *)
(* with and without quote characters of their own, and texts around the    *)
(* length cap.                                                             *)
(***************************************************************************)
\* longest text of the character family
MaxChars == 2
\* most lines in a text of the line family
MaxLines == 3

Repeat(c, n) == [i \in 1..n |-> c]

SpecialChars == {"a", " ", "\n", Quote, ":", "*"}

\* all texts of exactly n characters over the set cs
RECURSIVE TextsOfLen(_, _)
TextsOfLen(cs, n) ==
    IF n = 0 THEN {<< >>}
    ELSE {<<c>> \o rest : c \in cs, rest \in TextsOfLen(cs, n - 1)}

CharTexts == UNION {TextsOfLen(SpecialChars, n) : n \in 0..MaxChars}

\* a reasoning line, a short line, a line ending in a colon, an answer, a
\* numbered item, a label
SampleLines ==
    { <<"H","m","m">>, <<"N","o">>,
      <<"i","t"," ","i","s",":">>, <<"I","t"," ","i","s"," ","5",".">>,
      <<"1","."," ","x">>, <<"N","o","t","e",":"," ","z">> }

\* all texts of exactly n of the sample lines
RECURSIVE TextsOfLines(_)
TextsOfLines(n) ==
    IF n = 1 THEN SampleLines
    ELSE {l \o <<"\n">> \o rest : l \in SampleLines, rest \in TextsOfLines(n - 1)}

LineTexts == UNION {TextsOfLines(n) : n \in 1..MaxLines}

QuotePrefixes ==
    { << >>, <<"O","k"," ">>, <<"\"","h","i","\""," ","t","h","e","n"," ">>,
      <<"\"","b","c","d","e","f","\""," ","o","r"," ">>, <<"i","t","'","s"," ">> }

\* blank, shortest, padded, too short, longest, too long
QuoteContents ==
    { Repeat(" ", MinQuoteLen), <<"h","e","l","l","o">>, <<" ","h","e","l","l","o"," ">>,
      Repeat("x", MinQuoteLen - 1), Repeat("x", MaxQuoteLen),
      Repeat("x", MaxQuoteLen + 1) }

QuotedTexts ==
    {pre \o <<Quote>> \o body \o <<Quote>> :
         pre \in QuotePrefixes, body \in QuoteContents}

\* a sentence of n characters
Sentence(c, n) == Repeat(c, n - 1) \o <<".">>

\* at the cap, over it without punctuation, two sentences that exceed it
\* together, three sentences of which two fit
LongTexts ==
    { Repeat("a", MaxAnswerLen), Repeat("a", MaxAnswerLen + 1),
      Sentence("b", MaxQuoteLen + 1) \o <<" ">> \o Sentence("c", MaxQuoteLen + 1)
          \o <<" ">> \o Sentence("d", MinQuoteLen),
      Sentence("b", MaxQuoteLen - 1) \o <<" ">> \o Sentence("c", MaxQuoteLen - 1)
          \o <<" ">> \o Sentence("d", MinQuoteLen) }

SanitizerInputs == CharTexts \cup LineTexts \cup QuotedTexts \cup LongTexts

SanitizerBodies == {Body("message", "str", r) : r \in SanitizerInputs}

StatusOk == 200
StatusNotFound == 404
StatusServerError == 500

Outcome(kind, code, body) == [kind |-> kind, code |-> code, body |-> body]

Outcomes ==
    {Outcome("connect_error", 0, NoBody), Outcome("timeout", 0, NoBody),
     Outcome("status", StatusNotFound, NoBody),
     Outcome("status", StatusServerError, NoBody)}
        \cup {Outcome("status", StatusOk, b) : b \in Bodies}

\* str(e) of the exceptions the transport raises; a timeout carries no text
ExceptionText(kind) ==
    CASE kind = "connect_error" -> <<"c","o","n","n","e","c","t"," ","f","a","i","l","e","d">>
      [] kind = "timeout" -> << >>
      [] kind = "json" -> <<"E","x","p","e","c","t","i","n","g"," ","v","a","l","u","e">>
      [] kind = "type" -> <<"n","o","t"," ","s","u","b","s","c","r","i","p","t","a","b","l","e">>
      [] OTHER -> <<"e","r","r","o","r">>

CodeText(code) ==
    CASE code = StatusNotFound -> <<"4", "0", "4">>
      [] code = StatusServerError -> <<"5", "0", "0">>
      [] OTHER -> <<"2", "0", "0">>

SorryProcess ==
    <<"S","o","r","r","y",","," ","I"," ","c","o","u","l","d","n","'","t",
      " ","p","r","o","c","e","s","s"," ","t","h","a","t",".">>
SorryWrong ==
    <<"S","o","r","r","y",","," ","s","o","m","e","t","h","i","n","g"," ",
      "w","e","n","t"," ","w","r","o","n","g",".">>

AIResponse(content, success, error) ==
    [content |-> content, success |-> success, error |-> error]

NoResponse == AIResponse(<< >>, FALSE, None)

\* response.raise_for_status(): an error status raises HTTPStatusError
IsSuccessStatus(code) == code >= 200 /\ code < 300

\* except httpx.HTTPStatusError
HttpFailure(code) ==
    AIResponse(SorryProcess, FALSE, Some(<<"H", "T", "T", "P", " ">> \o CodeText(code)))

\* except Exception
ExceptionFailure(kind) == AIResponse(SorryWrong, FALSE, Some(ExceptionText(kind)))

\* the exception the body raises between response.json() and the history
\* append ("" when it raises none)
BodyException(body) ==
    CASE body.shape = "not_json" -> "json"
      [] body.shape = "message_malformed" -> "type"
      [] body.shape \in {"message", "response"} /\ body.ctype = "number" -> "type"
      [] OTHER -> ""

\* self._extract_final_answer(raw_content) for the raw content of a body
Sanitized(body) ==
    IF body.ctype = "null" THEN Filler ELSE ExtractFinalAnswer(body.text)

\* the same, computed once for each body the backend can send
SanitizedBodies == [b \in Bodies \cup SanitizerBodies |-> Sanitized(b)]

\* content = self._extract_final_answer(raw_content)
BodyContent(body) == SanitizedBodies[body]

\* the two appends in the wrong order
AppendExchangeSwapped(hist, user_input, content) ==
    Append(Append(hist, Message("assistant", content)),
           Message("user", user_input))

\* the two appends of a successful call
AppendExchange(hist, user_input, content) ==
    Append(Append(hist, Message("user", user_input)),
           Message("assistant", content))

\* a get_response that stores the user turn before it knows the outcome
FinishUserFirst(hist, call, o) ==
    LET early == Append(hist, Message("user", call.user_input))
    IN IF o.kind # "status"
       THEN [result |-> ExceptionFailure(o.kind), history |-> early]
       ELSE IF ~IsSuccessStatus(o.code)
       THEN [result |-> HttpFailure(o.code), history |-> early]
       ELSE IF BodyException(o.body) # ""
       THEN [result |-> ExceptionFailure(BodyException(o.body)),
             history |-> early]
       ELSE [result |-> AIResponse(BodyContent(o.body), TRUE, None),
             history |-> Append(early,
                                Message("assistant", BodyContent(o.body)))]

\* get_response from the last reply on: the AIResponse and the history
Finish(hist, call, o) ==
    IF o.kind # "status"
    THEN [result |-> ExceptionFailure(o.kind), history |-> hist]
    ELSE IF ~IsSuccessStatus(o.code)
    THEN [result |-> HttpFailure(o.code), history |-> hist]
    ELSE IF BodyException(o.body) # ""
    THEN [result |-> ExceptionFailure(BodyException(o.body)), history |-> hist]
    ELSE LET content == BodyContent(o.body)
         IN [result |-> AIResponse(content, TRUE, None),
             history |-> AppendExchange(hist, call.user_input, content)]

Call(user_input, screen_context) ==
    [user_input |-> user_input, screen_context |-> screen_context]

NoCall == Call(<< >>, None)

\* get_response up to the first await: messages built, /chat request sent
AIStart(user_input, screen_context) ==
    /\ ai_pc = "idle"
    /\ ai_pc' = "await_primary"
    /\ ai_call' = Call(user_input, screen_context)
    /\ sent' = <<ChatRequest(BuildMessages(history, max_history, user_input,
                                           screen_context))>>
    /\ replies' = << >>
    /\ history_at_call' = history
    /\ UNCHANGED <<history, max_history, ai_result>>

\* a fallback taken on every error status
TriesFallbackOnAnyError(o) == o.kind = "status" /\ o.code >= 400

\* the status that makes get_response try the /generate endpoint
TriesFallback(o) == o.kind = "status" /\ o.code = StatusNotFound

AIFinish(o) ==
    LET f == Finish(history, ai_call, o)
    IN /\ ai_pc' = "returned"
       /\ ai_result' = f.result
       /\ history' = f.history
       /\ replies' = Append(replies, o)
       /\ UNCHANGED <<max_history, ai_call, sent, history_at_call>>

\* the reply to the /chat request arrives, one of the outcomes os
PrimaryReplyFrom(os) ==
    /\ ai_pc = "await_primary"
    /\ \E o \in os :
          IF TriesFallback(o)
          THEN /\ ai_pc' = "await_secondary"
               /\ sent' = Append(sent, GenerateRequest(
                                            GeneratePrompt(ai_call.user_input)))
               /\ replies' = Append(replies, o)
               /\ UNCHANGED <<history, max_history, ai_call, ai_result,
                              history_at_call>>
          ELSE AIFinish(o)

PrimaryReply == PrimaryReplyFrom(Outcomes)

\* the reply to the /generate request arrives, one of the outcomes os
SecondaryReplyFrom(os) ==
    /\ ai_pc = "await_secondary"
    /\ \E o \in os : AIFinish(o)

SecondaryReply == SecondaryReplyFrom(Outcomes)

\* get_response on a closed client: the POST raises at once and the
\* except clause answers
AIStartClosed(user_input, screen_context) ==
    /\ ai_pc = "idle"
    /\ ai_pc' = "returned"
    /\ ai_call' = Call(user_input, screen_context)
    /\ sent' = << >>
    /\ replies' = << >>
    /\ history_at_call' = history
    /\ ai_result' = ExceptionFailure("closed")
    /\ UNCHANGED <<history, max_history>>

\* the caller takes the AIResponse; the frame of the call is gone
AITake ==
    /\ ai_pc = "returned"
    /\ ai_pc' = "idle"
    /\ ai_call' = NoCall
    /\ sent' = << >>
    /\ replies' = << >>
    /\ ai_result' = NoResponse
    /\ history_at_call' = << >>
    /\ UNCHANGED <<history, max_history>>

\* clear_history
ClearHistory ==
    /\ ai_pc = "idle"
    /\ history' = << >>
    /\ UNCHANGED <<max_history, ai_call, sent, replies, ai_result,
                   history_at_call, ai_pc>>


(***************************************************************************)
(* VoiceAssistant, TrayApp and WakeWordDetector: the state.                *)
(***************************************************************************)
VARIABLES
    pc,                 \* where each thread stands
    loc,                \* each thread's local variables of the turn it runs
    processing,         \* VoiceAssistant._processing (the ProcessingGuard)
    status,             \* TrayApp._status (the status sink)
    running,            \* VoiceAssistant._running
    listening_enabled,  \* VoiceAssistant._listening_enabled
    speaking,           \* per thread: the utterance of the speak call it is in
    capturing,          \* threads inside SpeechToText.listen
    event_loop,         \* VoiceAssistant._event_loop: none, open, running, closed
    ai_owner,           \* the thread whose run_until_complete drives the loop
    client_open,        \* AIEngine._client not yet closed
    use_advanced_wake,  \* the local of start(): unset, yes, no
    wake_detector,      \* VoiceAssistant.wake_detector and its fields
    stream,             \* the detector's sd.InputStream: none, open, failed, closed
    tray_icon,          \* TrayApp._icon is not None
    tray_is_listening,  \* TrayApp._is_listening
    exited,             \* the process has ended
    capabilities        \* what the constructors found: a microphone, a TTS engine

orchVars == <<pc, loc, processing, status, running, listening_enabled, speaking,
              capturing, event_loop, ai_owner, client_open, use_advanced_wake,
              wake_detector, stream, tray_icon, tray_is_listening, exited,
              capabilities>>

vars == <<history, max_history, ai_pc, ai_call, sent, replies, ai_result,
          history_at_call, pc, loc, processing, status, running,
          listening_enabled, speaking, capturing, event_loop, ai_owner,
          client_open, use_advanced_wake, wake_detector, stream, tray_icon,
          tray_is_listening, exited, capabilities>>

\* the threads of the program, and a further caller of the entry points
ProgramThreads == {"main", "detector", "tray"}
Callers == {"c1"}
Threads == ProgramThreads \cup Callers

\* the locals of a turn: text, screen_context, response; pending is the
\* exception on its way out through the finally block: none, error
\* (an Exception) or interrupt (a KeyboardInterrupt)
Locals(success, text, screen_context, response, pending) ==
    [success |-> success, text |-> text, screen_context |-> screen_context,
     response |-> response, pending |-> pending]

NoLocals == Locals(FALSE, << >>, None, NoResponse, "none")

Detector(present, use_openwakeword, is_listening, stop_flag) ==
    [present |-> present, use_openwakeword |-> use_openwakeword,
     is_listening |-> is_listening, stop_flag |-> stop_flag]

NoDetector == Detector(FALSE, FALSE, FALSE, FALSE)

\* VoiceAssistant.__init__ and TrayApp.__init__, before start()
\* SpeechToText.__init__ finds an input device or prints the error;
\* TextToSpeech.__init__ finds edge-tts or pyttsx3 or prints that there is
\* no engine.  Neither raises and neither ends the process.
Capability(capture, synthesis) == [capture |-> capture, synthesis |-> synthesis]

Capabilities == {Capability(c, s) : c \in BOOLEAN, s \in BOOLEAN}

AllCapabilities == Capability(TRUE, TRUE)

OrchInit ==
    /\ pc = [t \in Threads |-> IF t = "main" THEN "m_boot" ELSE "off"]
    /\ loc = [t \in Threads |-> NoLocals]
    /\ processing = FALSE
    /\ status = "idle"
    /\ running = FALSE
    /\ listening_enabled = TRUE
    /\ speaking = [t \in Threads |-> "none"]
    /\ capturing = {}
    /\ event_loop = "none"
    /\ ai_owner = "none"
    /\ client_open = TRUE
    /\ use_advanced_wake = "unset"
    /\ wake_detector = NoDetector
    /\ stream = "none"
    /\ tray_icon = FALSE
    /\ tray_is_listening = TRUE
    /\ exited = FALSE

\* AIEngine.__init__
AIInit ==
    /\ history = << >>
    /\ ai_pc = "idle"
    /\ ai_call = NoCall
    /\ sent = << >>
    /\ replies = << >>
    /\ ai_result = NoResponse
    /\ history_at_call = << >>

(***************************************************************************)
(* The engine on its own: any sequence of get_response and clear_history   *)
(* calls, under each configured window.                                    *)
(***************************************************************************)
TextHi ==
    <<"H","i">>
TextWhy ==
    <<"W","h","y","?">>
TextRead ==
    <<"R","e","a","d"," ","i","t">>
TextLook ==
    <<"L","o","o","k"," ","a","t"," ","i","t">>
ScreenText ==
    <<"F","i","l","e"," ","E","d","i","t">>

\* a screen summary one character longer than the cap
LongScreenText == [i \in 1..(ScreenContextCap + 1) |-> "x"]

ApiArguments ==
    {Call(TextWhy, None), Call(TextRead, Some(ScreenText)),
     Call(TextRead, Some(LongScreenText))}
WindowChoices == (1..MaxWindow) \cup {DefaultMaxHistory}

InitAI ==
    /\ AIInit
    /\ max_history \in WindowChoices
    /\ OrchInit
    /\ capabilities = AllCapabilities

ApiCall ==
    /\ Len(history) < 2 * MaxExchanges
    /\ \E a \in ApiArguments : AIStart(a.user_input, a.screen_context)
    /\ UNCHANGED orchVars

ApiPrimaryReply == PrimaryReply /\ UNCHANGED orchVars
ApiSecondaryReply == SecondaryReply /\ UNCHANGED orchVars
ApiReturn == AITake /\ UNCHANGED orchVars
ApiClearHistory == ClearHistory /\ UNCHANGED orchVars

NextAI ==
    \/ ApiCall
    \/ ApiPrimaryReply
    \/ ApiSecondaryReply
    \/ ApiReturn
    \/ ApiClearHistory

SpecAI == InitAI /\ [][NextAI]_vars

(***************************************************************************)
(* The sanitizer as get_response applies it: one call at a time, answered  *)
(* with status 200 and each of the raw texts as the message content.       *)
(***************************************************************************)
SanitizerOutcomes == {Outcome("status", StatusOk, b) : b \in SanitizerBodies}

InitSanitize ==
    /\ AIInit
    /\ max_history = DefaultMaxHistory
    /\ OrchInit
    /\ capabilities = AllCapabilities

SanitizeCall ==
    /\ history = << >>
    /\ AIStart(TextWhy, None)
    /\ UNCHANGED orchVars

SanitizeReply == PrimaryReplyFrom(SanitizerOutcomes) /\ UNCHANGED orchVars

NextSanitize ==
    \/ SanitizeCall
    \/ SanitizeReply
    \/ ApiReturn
    \/ ApiClearHistory

SpecSanitize == InitSanitize /\ [][NextSanitize]_vars




(***************************************************************************)
(* The orchestrator: control flow of the handlers of main.py.              *)
(*                                                                         *)
(* A thread's pc names the statement it is about to execute:               *)
(*   wk_*    _on_wake_word_detected                                        *)
(*   pvc_*   _process_voice_command                                        *)
(*   pct_*   _process_command_text                                         *)
(*   poll_*  _run_wake_word_loop                                           *)
(*   m_*     start                 st_*  stop                              *)
(*   cb_*    audio_callback        d_*   the detector's listen thread      *)
(*   tg_*, t_*  the tray thread    off   a thread that is not running       *)
(***************************************************************************)
WakePcs == {"wk_check", "wk_return", "wk_status", "wk_speak"}

\* the statements of _process_voice_command inside its try block
PvcTry ==
    {"pvc_status_listening", "pvc_listen", "pvc_listening", "pvc_heard",
     "pvc_fail_speak", "pvc_fail_status", "pvc_kw_status", "pvc_screen", "pvc_status_processing",
     "pvc_speak_thinking", "pvc_call_ai", "pvc_await_ai",
     "pvc_status_speaking", "pvc_speak_answer", "pvc_speak_sorry"}

PvcPcs ==
    {"pvc_check", "pvc_return", "pvc_set", "pvc_except", "pvc_finally",
     "pvc_finally_status"} \cup PvcTry

\* the statements of _process_command_text inside its try block
PctTry ==
    {"pct_screen", "pct_status_processing", "pct_call_ai", "pct_await_ai",
     "pct_status_speaking", "pct_speak_answer", "pct_speak_sorry"}

PctPcs ==
    {"pct_check", "pct_return", "pct_set", "pct_finally",
     "pct_finally_status"} \cup PctTry

HandlerPcs == WakePcs \cup PvcPcs \cup PctPcs

\* where a thread continues when the handler it called returns
Return(t) ==
    CASE t = "detector" -> "cb_after"
      [] t = "main" -> "poll_test"
      [] OTHER -> "off"

\* where a thread continues when an exception leaves the handler it called:
\* the audio callback is abandoned, the polling loop's except clause runs
Propagate(t) ==
    CASE t = "detector" -> "cb_wait"
      [] t = "main" -> "poll_except"
      [] OTHER -> "off"

\* where an exception raised by the statement at p takes the thread
RaiseTarget(t, p) ==
    CASE p \in PvcTry -> "pvc_except"
      [] p = "pvc_except" -> "pvc_finally"
      [] p \in PctTry -> "pct_finally"
      [] p \in WakePcs \cup {"pvc_finally_status", "pct_finally_status"} ->
            Propagate(t)
      [] p \in {"tg_speak", "tg_icon"} -> "t_idle"
      [] t = "tray" -> "t_idle"
      [] OTHER -> "m_dead"

\* the exception is still on its way out when the finally block runs
RaisePending(p) ==
    IF p = "pvc_except" \/ p \in PctTry THEN "error" ELSE "none"

\* the thread goes to p; a handler's locals end with the handler; the
\* process ends when the main thread does
Move(t, p, raised) ==
    /\ pc' = [pc EXCEPT ![t] = p]
    /\ loc' = [loc EXCEPT ![t] =
                  IF p \in HandlerPcs
                  THEN [@ EXCEPT !.pending =
                                      IF raised # "none" THEN raised ELSE @]
                  ELSE NoLocals]
    /\ exited' = (exited \/ p = "m_dead")

(***************************************************************************)
(* TrayApp.set_status at each of its call sites.                           *)
(***************************************************************************)
StatusValue(p) ==
    CASE p \in {"wk_status", "pvc_status_listening"} -> "listening"
      [] p \in {"pvc_kw_status", "pvc_status_processing",
                "pct_status_processing"} -> "processing"
      [] p \in {"pvc_status_speaking", "pct_status_speaking"} -> "speaking"
      [] OTHER -> "idle"

StatusSites ==
    {"wk_status", "pvc_status_listening", "pvc_fail_status", "pvc_kw_status",
     "pvc_status_processing", "pvc_status_speaking", "pvc_finally_status",
     "pct_status_processing", "pct_status_speaking", "pct_finally_status",
     "m_status_idle"}

\* a start that runs the polling loop whatever the detector does
DriveLoopAlwaysPolls == "poll_test"

\* start, lines 312-320: the detector drives (the main thread idles), or
\* the main thread polls
DriveLoop == IF use_advanced_wake = "yes" THEN "m_idle" ELSE "poll_test"

AfterStatus(t, p) ==
    CASE p = "wk_status" -> "wk_speak"
      [] p = "pvc_status_listening" -> "pvc_listen"
      [] p = "pvc_fail_status" -> "pvc_finally"
      [] p = "pvc_kw_status" -> "pvc_screen"
      [] p = "pvc_status_processing" -> "pvc_speak_thinking"
      [] p = "pvc_status_speaking" -> "pvc_speak_answer"
      [] p = "pct_status_processing" -> "pct_call_ai"
      [] p = "pct_status_speaking" -> "pct_speak_answer"
      [] p \in {"pvc_finally_status", "pct_finally_status"} ->
            (CASE loc[t].pending = "interrupt" -> "st_running"
               [] loc[t].pending = "error" -> Propagate(t)
               [] OTHER -> Return(t))
      [] OTHER -> DriveLoop

\* set_status: _status is assigned first; _update_icon may then fail when
\* there is an icon to redraw
SetStatus(t) ==
    /\ ~exited
    /\ pc[t] \in StatusSites
    /\ status' = StatusValue(pc[t])
    /\ \/ Move(t, AfterStatus(t, pc[t]), "none")
       \/ /\ tray_icon
          /\ Move(t, RaiseTarget(t, pc[t]), RaisePending(pc[t]))
    /\ UNCHANGED <<aiVars, processing, running, listening_enabled, speaking,
                   capturing, event_loop, ai_owner, client_open,
                   use_advanced_wake, wake_detector, stream, tray_icon,
                   tray_is_listening, capabilities>>

(***************************************************************************)
(* TextToSpeech.speak at each of its call sites.                           *)
(***************************************************************************)
SpeakSites ==
    {"wk_speak", "pvc_fail_speak", "pvc_speak_thinking", "pvc_speak_answer",
     "pvc_speak_sorry", "pvc_except", "pct_speak_answer", "pct_speak_sorry",
     "tg_speak", "st_goodbye", "m_greet"}

\* which utterance the call at p speaks
Utterance(p) ==
    CASE p = "wk_speak" -> "ack"
      [] p = "pvc_fail_speak" -> "apology"
      [] p = "pvc_speak_thinking" -> "thinking"
      [] p \in {"pvc_speak_answer", "pct_speak_answer"} -> "answer"
      [] p \in {"pvc_speak_sorry", "pct_speak_sorry"} -> "no_response"
      [] p = "pvc_except" -> "went_wrong"
      [] p = "tg_speak" -> "toggle"
      [] p = "st_goodbye" -> "goodbye"
      [] OTHER -> "greeting"

AfterSpeak(p) ==
    CASE p = "wk_speak" -> "pvc_check"
      [] p = "pvc_fail_speak" -> "pvc_fail_status"
      [] p = "pvc_speak_thinking" -> "pvc_call_ai"
      [] p \in {"pvc_speak_answer", "pvc_speak_sorry", "pvc_except"} ->
            "pvc_finally"
      [] p \in {"pct_speak_answer", "pct_speak_sorry"} -> "pct_finally"
      [] p = "tg_speak" -> "tg_icon"
      [] p = "st_goodbye" -> "st_detector"
      [] OTHER -> "m_run"

\* the text handed to speak is empty or blank: speak returns at once
NothingToSay(t) ==
    /\ pc[t] \in {"pvc_speak_answer", "pct_speak_answer"}
    /\ Strip(loc[t].response.content) = << >>

\* speak is entered: synthesis and playback start
SpeakBegin(t) ==
    /\ ~exited
    /\ pc[t] \in SpeakSites
    /\ speaking[t] = "none"
    /\ IF NothingToSay(t) \/ ~capabilities.synthesis
       THEN Move(t, AfterSpeak(pc[t]), "none") /\ UNCHANGED speaking
       ELSE /\ speaking' = [speaking EXCEPT ![t] = Utterance(pc[t])]
            /\ UNCHANGED <<pc, loc, exited>>
    /\ UNCHANGED <<aiVars, processing, status, running, listening_enabled,
                   capturing, event_loop, ai_owner, client_open,
                   use_advanced_wake, wake_detector, stream, tray_icon,
                   tray_is_listening, capabilities>>

\* speak returns, or its fallback engine fails to initialise and it raises
SpeakEnd(t) ==
    /\ ~exited
    /\ speaking[t] # "none"
    /\ speaking' = [speaking EXCEPT ![t] = "none"]
    /\ \/ Move(t, AfterSpeak(pc[t]), "none")
       \/ Move(t, RaiseTarget(t, pc[t]), RaisePending(pc[t]))
    /\ UNCHANGED <<aiVars, processing, status, running, listening_enabled,
                   capturing, event_loop, ai_owner, client_open,
                   use_advanced_wake, wake_detector, stream, tray_icon,
                   tray_is_listening, capabilities>>

(***************************************************************************)
(* SpeechToText.listen at its call sites.                                  *)
(***************************************************************************)
Silence ==
    <<"S","i","l","e","n","c","e">>

\* SimpleWakeWordDetector.wake_phrase: config.wake_phrase in lower case
WakePhrase ==
    <<"h","e","y"," ","n","e","b","u","l","a">>

\* an utterance of the wake phrase
TextWake ==
    <<"H","e","y"," ","N","e","b","u","l","a">>

Transcripts == {TextHi, TextRead, TextLook, TextWake}

\* the second element of the tuple listen returns with False
FailureReason(cause) ==
    CASE cause = "no_audio" ->
            <<"F","a","i","l","e","d"," ","t","o"," ","r","e","c","o","r","d",
              " ","a","u","d","i","o">>
      [] cause = "silence" -> Silence
      [] cause = "unknown_value" ->
            <<"C","o","u","l","d"," ","n","o","t"," ","u","n","d","e","r",
              "s","t","a","n","d">>
      [] cause = "request_error" ->
            <<"A","P","I"," ","e","r","r","o","r",":"," ">>
                \o ExceptionText("request")
      [] OTHER -> <<"E","r","r","o","r",":"," ">> \o ExceptionText("audio")

\* listen returns (success, text)
Heard(success, text) == [success |-> success, text |-> text, raised |-> FALSE]

\* listen raises instead
ListenRaises == [success |-> FALSE, text |-> << >>, raised |-> TRUE]

\* what one call of listen meets: _record_audio returns None, a silent or
\* an audible recording, or a later statement of the try block raises;
\* recognize_google returns a text or raises UnknownValueError,
\* RequestError or something else
Circumstance(recording, recognition, text) ==
    [recording |-> recording, recognition |-> recognition, text |-> text]

Circumstances(capture) ==
    {Circumstance("none", "none", << >>)} \cup
    IF ~capture THEN {}
    ELSE {Circumstance(r, "none", << >>) : r \in {"silent", "raises"}}
             \cup {Circumstance("audible", "text", x) : x \in Transcripts}
             \cup {Circumstance("audible", k, << >>) :
                       k \in {"unknown_value", "request_error", "raises"}}

\* a listen whose try block has only the two inner except clauses
ListenWithoutExcept(c) ==
    CASE c.recording = "none" -> Heard(FALSE, FailureReason("no_audio"))
      [] c.recording = "silent" -> Heard(FALSE, FailureReason("silence"))
      [] c.recording = "raises" -> ListenRaises
      [] c.recognition = "text" -> Heard(TRUE, c.text)
      [] c.recognition \in {"unknown_value", "request_error"} ->
            Heard(FALSE, FailureReason(c.recognition))
      [] OTHER -> ListenRaises

\* SpeechToText.listen from the recording on
Listen(c) ==
    CASE c.recording = "none" -> Heard(FALSE, FailureReason("no_audio"))
      [] c.recording = "silent" -> Heard(FALSE, FailureReason("silence"))
      [] c.recording = "raises" -> Heard(FALSE, FailureReason("exception"))
      [] c.recognition = "text" -> Heard(TRUE, c.text)
      [] c.recognition \in {"unknown_value", "request_error"} ->
            Heard(FALSE, FailureReason(c.recognition))
      [] OTHER -> Heard(FALSE, FailureReason("exception"))

\* what listen can return: a failure with its reason, or a transcript
ListenResults(capture) == {Listen(c) : c \in Circumstances(capture)}

\* the keyword lists of the two handlers
VoiceKeywords ==
    { <<"s","c","r","e","e","n">>, <<"s","e","e">>, <<"s","h","o","w">>,
      <<"r","e","a","d">>, <<"w","h","a","t","'","s"," ","o","n">>,
      <<"l","o","o","k"," ","a","t">> }

TextKeywords ==
    { <<"s","c","r","e","e","n">>, <<"s","e","e">>, <<"s","h","o","w">>,
      <<"r","e","a","d">>, <<"w","h","a","t","'","s"," ","o","n">> }

\* any(kw in text.lower() for kw in keywords)
MentionsScreen(text, keywords) == \E kw \in keywords : Contains(Lower(text), kw)

ListenSites == {"pvc_listen", "poll_listen"}

\* listen is entered: recording starts
ListenBegin(t) ==
    /\ ~exited
    /\ pc[t] \in ListenSites
    /\ capturing' = capturing \cup {t}
    /\ Move(t, IF pc[t] = "pvc_listen" THEN "pvc_listening" ELSE "poll_listening",
            "none")
    /\ UNCHANGED <<aiVars, processing, status, running, listening_enabled,
                   speaking, event_loop, ai_owner, client_open,
                   use_advanced_wake, wake_detector, stream, tray_icon,
                   tray_is_listening, capabilities>>

\* lines 133-145 of _process_voice_command: the result of listen decides
AfterVoiceListen(r) ==
    IF ~r.success THEN "pvc_fail_speak"
    ELSE IF MentionsScreen(r.text, VoiceKeywords) THEN "pvc_kw_status"
    ELSE "pvc_status_processing"

\* a loop that hands every transcript to _process_command_text
AfterPollListenAnyLength(r) ==
    IF r.success THEN "pct_check" ELSE "poll_test"

\* lines 192-202 of _run_wake_word_loop: the result of listen decides
AfterPollListen(r) ==
    IF r.success /\ r.text # << >> /\ Len(Strip(r.text)) > 2
    THEN "pct_check" ELSE "poll_test"

\* listen returns: success, text = self.stt.listen()
ListenEnd(t) ==
    /\ ~exited
    /\ pc[t] \in {"pvc_listening", "poll_listening"}
    /\ capturing' = capturing \ {t}
    /\ \E r \in ListenResults(capabilities.capture) :
          /\ r.success => Len(history) < 2 * MaxTurns
          /\ pc' = [pc EXCEPT ![t] =
                       CASE r.raised /\ pc[t] = "pvc_listening" -> "pvc_except"
                         [] r.raised -> "poll_except"
                         [] pc[t] = "pvc_listening" -> "pvc_heard"
                         [] OTHER -> "poll_heard"]
          /\ loc' = [loc EXCEPT ![t] =
                        IF r.raised THEN @
                        ELSE Locals(r.success, r.text, None, NoResponse,
                                    "none")]
    /\ UNCHANGED <<aiVars, processing, status, running, listening_enabled,
                   speaking, event_loop, ai_owner, client_open,
                   use_advanced_wake, wake_detector, stream, tray_icon,
                   tray_is_listening, exited, capabilities>>

\* the test on the result of listen: line 135 of _process_voice_command,
\* line 194 of _run_wake_word_loop, which hands the text to
\* _process_command_text
HeardTest(t) ==
    /\ ~exited
    /\ pc[t] \in {"pvc_heard", "poll_heard"}
    /\ LET r == Heard(loc[t].success, loc[t].text)
           p == IF pc[t] = "pvc_heard" THEN AfterVoiceListen(r)
                ELSE AfterPollListen(r)
       IN /\ pc' = [pc EXCEPT ![t] = p]
          /\ loc' = [loc EXCEPT ![t] =
                        CASE p \in PvcPcs -> @
                          [] p \in PctPcs ->
                                Locals(FALSE, r.text, None, NoResponse, "none")
                          [] OTHER -> NoLocals]
    /\ UNCHANGED <<aiVars, processing, status, running, listening_enabled,
                   speaking, capturing, event_loop, ai_owner, client_open,
                   use_advanced_wake, wake_detector, stream, tray_icon,
                   tray_is_listening, exited, capabilities>>

(***************************************************************************)
(* The handlers' own statements.                                           *)
(***************************************************************************)
\* _on_wake_word_detected, line 109: refuse while paused or busy
WakeCheck(t) ==
    /\ ~exited
    /\ pc[t] = "wk_check"
    /\ Move(t, IF ~listening_enabled \/ processing THEN "wk_return"
               ELSE "wk_status", "none")
    /\ UNCHANGED <<aiVars, processing, status, running, listening_enabled,
                   speaking, capturing, event_loop, ai_owner, client_open,
                   use_advanced_wake, wake_detector, stream, tray_icon,
                   tray_is_listening, capabilities>>

\* a check that lets every activation through
GuardCheckIgnoresGuard(t) ==
    /\ ~exited
    /\ pc[t] \in {"pvc_check", "pct_check"}
    /\ Move(t, IF pc[t] = "pvc_check" THEN "pvc_set" ELSE "pct_set", "none")
    /\ UNCHANGED <<aiVars, processing, status, running, listening_enabled,
                   speaking, capturing, event_loop, ai_owner, client_open,
                   use_advanced_wake, wake_detector, stream, tray_icon,
                   tray_is_listening, capabilities>>

\* "if self._processing:" of the two turn handlers
GuardCheck(t) ==
    /\ ~exited
    /\ pc[t] \in {"pvc_check", "pct_check"}
    /\ Move(t, IF pc[t] = "pvc_check"
               THEN (IF processing THEN "pvc_return" ELSE "pvc_set")
               ELSE (IF processing THEN "pct_return" ELSE "pct_set"),
            "none")
    /\ UNCHANGED <<aiVars, processing, status, running, listening_enabled,
                   speaking, capturing, event_loop, ai_owner, client_open,
                   use_advanced_wake, wake_detector, stream, tray_icon,
                   tray_is_listening, capabilities>>

ReturnPcs == {"wk_return", "pvc_return", "pct_return"}

\* the "return" under the check: lines 110, 124 and 238
EarlyReturn(t) ==
    /\ ~exited
    /\ pc[t] \in ReturnPcs
    /\ Move(t, Return(t), "none")
    /\ UNCHANGED <<aiVars, processing, status, running, listening_enabled,
                   speaking, capturing, event_loop, ai_owner, client_open,
                   use_advanced_wake, wake_detector, stream, tray_icon,
                   tray_is_listening, capabilities>>

\* "self._processing = True", then into the try block
GuardSet(t) ==
    /\ ~exited
    /\ pc[t] \in {"pvc_set", "pct_set"}
    /\ processing' = TRUE
    /\ Move(t, IF pc[t] = "pvc_set" THEN "pvc_status_listening"
               ELSE IF MentionsScreen(loc[t].text, TextKeywords)
               THEN "pct_screen" ELSE "pct_status_processing", "none")
    /\ UNCHANGED <<aiVars, status, running, listening_enabled, speaking,
                   capturing, event_loop, ai_owner, client_open,
                   use_advanced_wake, wake_detector, stream, tray_icon,
                   tray_is_listening, capabilities>>

\* a finally block that returns without clearing the guard
FinallyKeepsGuard(t) ==
    /\ ~exited
    /\ pc[t] \in {"pvc_finally", "pct_finally"}
    /\ Move(t, CASE loc[t].pending = "interrupt" -> "st_running"
                 [] loc[t].pending = "error" -> Propagate(t)
                 [] OTHER -> Return(t), "none")
    /\ UNCHANGED <<aiVars, processing, status, running, listening_enabled,
                   speaking, capturing, event_loop, ai_owner, client_open,
                   use_advanced_wake, wake_detector, stream, tray_icon,
                   tray_is_listening, capabilities>>

\* finally: "self._processing = False"
Finally(t) ==
    /\ ~exited
    /\ pc[t] \in {"pvc_finally", "pct_finally"}
    /\ processing' = FALSE
    /\ Move(t, IF pc[t] = "pvc_finally" THEN "pvc_finally_status"
               ELSE "pct_finally_status", "none")
    /\ UNCHANGED <<aiVars, status, running, listening_enabled, speaking,
                   capturing, event_loop, ai_owner, client_open,
                   use_advanced_wake, wake_detector, stream, tray_icon,
                   tray_is_listening, capabilities>>

\* screen_reader.get_screen_summary(): a summary, or the capture raises
ScreenSummary(t) ==
    /\ ~exited
    /\ pc[t] \in {"pvc_screen", "pct_screen"}
    /\ \/ /\ pc' = [pc EXCEPT ![t] = IF pc[t] = "pvc_screen"
                                     THEN "pvc_status_processing"
                                     ELSE "pct_status_processing"]
          /\ loc' = [loc EXCEPT ![t].screen_context = Some(ScreenText)]
          /\ UNCHANGED exited
       \/ Move(t, RaiseTarget(t, pc[t]), RaisePending(pc[t]))
    /\ UNCHANGED <<aiVars, processing, status, running, listening_enabled,
                   speaking, capturing, event_loop, ai_owner, client_open,
                   use_advanced_wake, wake_detector, stream, tray_icon,
                   tray_is_listening, capabilities>>

\* self._event_loop.run_until_complete(self.ai.get_response(...)): raises
\* when there is no loop, or the loop is closed or already running
CallAI(t) ==
    /\ ~exited
    /\ pc[t] \in {"pvc_call_ai", "pct_call_ai"}
    /\ IF event_loop = "open"
       THEN /\ event_loop' = "running"
            /\ ai_owner' = t
            /\ IF client_open
               THEN AIStart(loc[t].text, loc[t].screen_context)
               ELSE AIStartClosed(loc[t].text, loc[t].screen_context)
            /\ Move(t, IF pc[t] = "pvc_call_ai" THEN "pvc_await_ai"
                       ELSE "pct_await_ai", "none")
       ELSE /\ Move(t, RaiseTarget(t, pc[t]), RaisePending(pc[t]))
            /\ UNCHANGED <<aiVars, event_loop, ai_owner>>
    /\ UNCHANGED <<processing, status, running, listening_enabled, speaking,
                   capturing, client_open, use_advanced_wake, wake_detector,
                   stream, tray_icon, tray_is_listening,
                   capabilities>>

\* run_until_complete returns the AIResponse; "if response.success"
TakeAI(t) ==
    /\ ~exited
    /\ pc[t] \in {"pvc_await_ai", "pct_await_ai"}
    /\ ai_owner = t
    /\ AITake
    /\ event_loop' = "open"
    /\ ai_owner' = "none"
    /\ pc' = [pc EXCEPT ![t] =
                 IF pc[t] = "pvc_await_ai"
                 THEN (IF ai_result.success THEN "pvc_status_speaking"
                       ELSE "pvc_speak_sorry")
                 ELSE (IF ai_result.success THEN "pct_status_speaking"
                       ELSE "pct_speak_sorry")]
    /\ loc' = [loc EXCEPT ![t].response = ai_result]
    /\ UNCHANGED <<processing, status, running, listening_enabled, speaking,
                   capturing, client_open, use_advanced_wake, wake_detector,
                   stream, tray_icon, tray_is_listening, exited,
                   capabilities>>

\* the outcomes a turn distinguishes: a reply, the status that leads to
\* the second endpoint, a failure
TurnOutcomes ==
    {Outcome("status", StatusOk, Body("response", "str", RawPlain)),
     Outcome("status", StatusNotFound, NoBody),
     Outcome("timeout", 0, NoBody)}

\* the backend answers the request in flight
BackendPrimary ==
    /\ ~exited
    /\ ai_owner # "none"
    /\ PrimaryReplyFrom(TurnOutcomes)
    /\ UNCHANGED orchVars

BackendSecondary ==
    /\ ~exited
    /\ ai_owner # "none"
    /\ SecondaryReplyFrom(TurnOutcomes)
    /\ UNCHANGED orchVars

(***************************************************************************)
(* start(), the two drive loops and stop().                                *)
(***************************************************************************)
\* start, lines 272-275: the event loop is created and the tray started;
\* without pystray there is no icon and no tray thread
MainBoot ==
    /\ ~exited
    /\ pc["main"] = "m_boot"
    /\ event_loop' = "open"
    /\ \E available \in BOOLEAN :
          /\ tray_icon' = available
          /\ pc' = [pc EXCEPT !["main"] = "m_detector",
                              !["tray"] = IF available THEN "t_idle" ELSE @]
    /\ UNCHANGED <<aiVars, loc, processing, status, running,
                   listening_enabled, speaking, capturing, ai_owner,
                   client_open, use_advanced_wake, wake_detector, stream,
                   tray_is_listening, exited, capabilities>>

\* a listen thread that opens the audio stream whatever was loaded
ListenThreadAlwaysOpens(use_openwakeword) == "d_open"

\* WakeWordDetector.start, lines 129-138: the target of the listen thread
ListenThread(use_openwakeword) ==
    IF use_openwakeword THEN "d_open" ELSE "d_simple"

\* start, lines 278-295: openwakeword is missing; or the detector is made
\* and started, and its model loaded or did not
StartDetector ==
    /\ ~exited
    /\ pc["main"] = "m_detector"
    /\ \/ /\ use_advanced_wake' = "no"
          /\ pc' = [pc EXCEPT !["main"] = "m_greet"]
          /\ UNCHANGED wake_detector
       \/ \E loaded \in BOOLEAN :
             /\ wake_detector' = Detector(TRUE, loaded, TRUE, FALSE)
             /\ use_advanced_wake' = IF loaded THEN "yes" ELSE "no"
             /\ pc' = [pc EXCEPT !["main"] = "m_greet",
                                 !["detector"] = ListenThread(loaded)]
    /\ UNCHANGED <<aiVars, loc, processing, status, running,
                   listening_enabled, speaking, capturing, event_loop,
                   ai_owner, client_open, stream, tray_icon,
                   tray_is_listening, exited, capabilities>>

\* start, line 308
MainRun ==
    /\ ~exited
    /\ pc["main"] = "m_run"
    /\ running' = TRUE
    /\ pc' = [pc EXCEPT !["main"] = "m_status_idle"]
    /\ UNCHANGED <<aiVars, loc, processing, status, listening_enabled,
                   speaking, capturing, event_loop, ai_owner, client_open,
                   use_advanced_wake, wake_detector, stream, tray_icon,
                   tray_is_listening, exited, capabilities>>

\* start, lines 315-316: "while self._running" fails; stop() follows
MainLoopExit ==
    /\ ~exited
    /\ pc["main"] = "m_idle"
    /\ ~running
    /\ pc' = [pc EXCEPT !["main"] = "st_running"]
    /\ UNCHANGED <<aiVars, loc, processing, status, running,
                   listening_enabled, speaking, capturing, event_loop,
                   ai_owner, client_open, use_advanced_wake, wake_detector,
                   stream, tray_icon, tray_is_listening, exited,
                   capabilities>>

\* _run_wake_word_loop, line 189
PollTest ==
    /\ ~exited
    /\ pc["main"] = "poll_test"
    /\ pc' = [pc EXCEPT !["main"] = IF running /\ listening_enabled
                                    THEN "poll_listen" ELSE "st_running"]
    /\ UNCHANGED <<aiVars, loc, processing, status, running,
                   listening_enabled, speaking, capturing, event_loop,
                   ai_owner, client_open, use_advanced_wake, wake_detector,
                   stream, tray_icon, tray_is_listening, exited,
                   capabilities>>

\* _run_wake_word_loop, lines 204-206
PollExcept ==
    /\ ~exited
    /\ pc["main"] = "poll_except"
    /\ pc' = [pc EXCEPT !["main"] = "poll_test"]
    /\ UNCHANGED <<aiVars, loc, processing, status, running,
                   listening_enabled, speaking, capturing, event_loop,
                   ai_owner, client_open, use_advanced_wake, wake_detector,
                   stream, tray_icon, tray_is_listening, exited,
                   capabilities>>

\* Ctrl+C reaches the main thread while it waits in a drive loop, records,
\* or speaks the reply of a turn: inside a turn the finally block runs
\* first; then start's except clause leads to stop()
Interrupt ==
    /\ ~exited
    /\ \/ pc["main"] \in {"m_idle", "poll_listening"}
       \/ pc["main"] \in {"pct_speak_answer", "pct_speak_sorry"}
             /\ speaking["main"] # "none"
    /\ speaking' = [speaking EXCEPT !["main"] = "none"]
    /\ capturing' = capturing \ {"main"}
    /\ Move("main", IF pc["main"] \in PctTry THEN "pct_finally"
                    ELSE "st_running", "interrupt")
    /\ UNCHANGED <<aiVars, processing, status, running, listening_enabled,
                   event_loop, ai_owner, client_open, use_advanced_wake,
                   wake_detector, stream, tray_icon, tray_is_listening,
                   capabilities>>

StopPcs == {"st_running", "st_goodbye", "st_detector", "st_tray",
            "st_loop_cleanup", "st_loop_close"}

\* stop, line 331
StopRunning(t) ==
    /\ ~exited
    /\ pc[t] = "st_running"
    /\ running' = FALSE
    /\ Move(t, "st_goodbye", "none")
    /\ UNCHANGED <<aiVars, processing, status, listening_enabled, speaking,
                   capturing, event_loop, ai_owner, client_open,
                   use_advanced_wake, wake_detector, stream, tray_icon,
                   tray_is_listening, capabilities>>

\* stop, lines 337-338: WakeWordDetector.cleanup -> stop
StopDetector(t) ==
    /\ ~exited
    /\ pc[t] = "st_detector"
    /\ wake_detector' =
          IF wake_detector.present /\ wake_detector.is_listening
          THEN [wake_detector EXCEPT !.is_listening = FALSE, !.stop_flag = TRUE]
          ELSE wake_detector
    /\ Move(t, "st_tray", "none")
    /\ UNCHANGED <<aiVars, processing, status, running, listening_enabled,
                   speaking, capturing, event_loop, ai_owner, client_open,
                   use_advanced_wake, stream, tray_icon, tray_is_listening,
                   capabilities>>

\* stop, lines 340-341: TrayApp.stop, TextToSpeech.cleanup
StopTray(t) ==
    /\ ~exited
    /\ pc[t] = "st_tray"
    /\ tray_icon' = FALSE
    /\ Move(t, "st_loop_cleanup", "none")
    /\ UNCHANGED <<aiVars, processing, status, running, listening_enabled,
                   speaking, capturing, event_loop, ai_owner, client_open,
                   use_advanced_wake, wake_detector, stream,
                   tray_is_listening, capabilities>>

\* the end of stop(): start returns and the process ends, or quit_action
\* stops the icon and the tray thread ends
AfterStop(t) == IF t = "main" THEN "m_dead" ELSE "t_done"

\* stop, lines 343-344: run_until_complete(self.ai.cleanup())
StopCleanup(t) ==
    /\ ~exited
    /\ pc[t] = "st_loop_cleanup"
    /\ IF event_loop = "none"
       THEN Move(t, AfterStop(t), "none") /\ UNCHANGED client_open
       ELSE IF event_loop = "open"
       THEN Move(t, "st_loop_close", "none") /\ client_open' = FALSE
       ELSE Move(t, RaiseTarget(t, pc[t]), "none") /\ UNCHANGED client_open
    /\ UNCHANGED <<aiVars, processing, status, running, listening_enabled,
                   speaking, capturing, event_loop, ai_owner,
                   use_advanced_wake, wake_detector, stream, tray_icon,
                   tray_is_listening, capabilities>>

\* stop, line 345: self._event_loop.close() raises on a running loop
StopClose(t) ==
    /\ ~exited
    /\ pc[t] = "st_loop_close"
    /\ IF event_loop = "running"
       THEN Move(t, RaiseTarget(t, pc[t]), "none") /\ UNCHANGED event_loop
       ELSE Move(t, AfterStop(t), "none") /\ event_loop' = "closed"
    /\ UNCHANGED <<aiVars, processing, status, running, listening_enabled,
                   speaking, capturing, ai_owner, client_open,
                   use_advanced_wake, wake_detector, stream, tray_icon,
                   tray_is_listening, capabilities>>

(***************************************************************************)
(* The detector's listen thread and its audio callback.                    *)
(***************************************************************************)
\* _listen_loop_openwakeword, lines 96-109: the input stream opens, or
\* opening it raises and the thread ends
StreamOpen ==
    /\ ~exited
    /\ pc["detector"] = "d_open"
    /\ \E ok \in (IF capabilities.capture THEN BOOLEAN ELSE {FALSE}) :
          /\ stream' = IF ok THEN "open" ELSE "failed"
          /\ pc' = [pc EXCEPT !["detector"] = IF ok THEN "cb_wait" ELSE "d_done"]
    /\ UNCHANGED <<aiVars, loc, processing, status, running,
                   listening_enabled, speaking, capturing, event_loop,
                   ai_owner, client_open, use_advanced_wake, wake_detector,
                   tray_icon, tray_is_listening, exited,
                   capabilities>>

\* audio_callback, lines 87-91: a score passes the threshold and the
\* callback calls _on_wake_word
WakeWord ==
    /\ ~exited
    /\ pc["detector"] = "cb_wait"
    /\ stream = "open"
    /\ pc' = [pc EXCEPT !["detector"] = "wk_check"]
    /\ UNCHANGED <<aiVars, loc, processing, status, running,
                   listening_enabled, speaking, capturing, event_loop,
                   ai_owner, client_open, use_advanced_wake, wake_detector,
                   stream, tray_icon, tray_is_listening, exited,
                   capabilities>>

\* audio_callback, lines 92-94: reset, debounce, return
CallbackReturn ==
    /\ ~exited
    /\ pc["detector"] = "cb_after"
    /\ pc' = [pc EXCEPT !["detector"] = "cb_wait"]
    /\ UNCHANGED <<aiVars, loc, processing, status, running,
                   listening_enabled, speaking, capturing, event_loop,
                   ai_owner, client_open, use_advanced_wake, wake_detector,
                   stream, tray_icon, tray_is_listening, exited,
                   capabilities>>

\* the listen loop sees the stop flag: the stream closes (between
\* callbacks), or the simple loop ends
DetectorExit ==
    /\ ~exited
    /\ pc["detector"] \in {"cb_wait", "d_simple"}
    /\ wake_detector.stop_flag
    /\ stream' = IF pc["detector"] = "cb_wait" THEN "closed" ELSE stream
    /\ pc' = [pc EXCEPT !["detector"] = "d_done"]
    /\ UNCHANGED <<aiVars, loc, processing, status, running,
                   listening_enabled, speaking, capturing, event_loop,
                   ai_owner, client_open, use_advanced_wake, wake_detector,
                   tray_icon, tray_is_listening, exited,
                   capabilities>>

(***************************************************************************)
(* The tray thread: the menu's handlers.                                   *)
(***************************************************************************)
\* toggle_listening, lines 141-143, and _on_toggle_listening, line 98
TrayToggle ==
    /\ ~exited
    /\ pc["tray"] = "t_idle"
    /\ tray_icon
    /\ tray_is_listening' = ~tray_is_listening
    /\ listening_enabled' = ~tray_is_listening
    /\ pc' = [pc EXCEPT !["tray"] = "tg_speak"]
    /\ UNCHANGED <<aiVars, loc, processing, status, running, speaking,
                   capturing, event_loop, ai_owner, client_open,
                   use_advanced_wake, wake_detector, stream, tray_icon,
                   exited, capabilities>>

\* toggle_listening, line 144: _update_icon redraws, or fails
TrayRedraw ==
    /\ ~exited
    /\ pc["tray"] = "tg_icon"
    /\ pc' = [pc EXCEPT !["tray"] = "t_idle"]
    /\ UNCHANGED <<aiVars, loc, processing, status, running,
                   listening_enabled, speaking, capturing, event_loop,
                   ai_owner, client_open, use_advanced_wake, wake_detector,
                   stream, tray_icon, tray_is_listening, exited,
                   capabilities>>

\* quit_action, lines 147-148, and _on_quit: stop() on the tray thread
TrayQuit ==
    /\ ~exited
    /\ pc["tray"] = "t_idle"
    /\ tray_icon
    /\ pc' = [pc EXCEPT !["tray"] = "st_running"]
    /\ UNCHANGED <<aiVars, loc, processing, status, running,
                   listening_enabled, speaking, capturing, event_loop,
                   ai_owner, client_open, use_advanced_wake, wake_detector,
                   stream, tray_icon, tray_is_listening, exited,
                   capabilities>>

(***************************************************************************)
(* The program.                                                            *)
(***************************************************************************)
Init ==
    /\ AIInit
    /\ max_history = DefaultMaxHistory
    /\ OrchInit
    /\ capabilities \in Capabilities

\* the steps a thread takes inside the handlers
Handler(t) ==
    \/ WakeCheck(t)
    \/ GuardCheck(t)
    \/ EarlyReturn(t)
    \/ GuardSet(t)
    \/ SetStatus(t)
    \/ SpeakBegin(t)
    \/ SpeakEnd(t)
    \/ ListenBegin(t)
    \/ ListenEnd(t)
    \/ HeardTest(t)
    \/ ScreenSummary(t)
    \/ CallAI(t)
    \/ TakeAI(t)
    \/ Finally(t)

Stop(t) ==
    \/ StopRunning(t)
    \/ StopDetector(t)
    \/ StopTray(t)
    \/ StopCleanup(t)
    \/ StopClose(t)

Next ==
    \/ \E t \in ProgramThreads : Handler(t)
    \/ \E t \in {"main", "tray"} : Stop(t)
    \/ BackendPrimary
    \/ BackendSecondary
    \/ MainBoot
    \/ StartDetector
    \/ MainRun
    \/ MainLoopExit
    \/ PollTest
    \/ PollExcept
    \/ Interrupt
    \/ StreamOpen
    \/ WakeWord
    \/ CallbackReturn
    \/ DetectorExit
    \/ TrayToggle
    \/ TrayRedraw
    \/ TrayQuit

Spec == Init /\ [][Next]_vars

(***************************************************************************)
(* The program under fair scheduling: every thread that can take a step    *)
(* of a handler, of stop() or of its loop eventually takes one, and the    *)
(* backend eventually answers a request in flight.  The detector's listen  *)
(* loop polls its stop flag on a thread of its own, so callbacks that keep *)
(* coming do not keep it from seeing the flag.  What the user does (wake   *)
(* words, Ctrl+C, the tray menu) is under no obligation.                   *)
(***************************************************************************)
Fairness ==
    /\ \A t \in ProgramThreads : WF_vars(Handler(t))
    /\ \A t \in {"main", "tray"} : WF_vars(Stop(t))
    /\ WF_vars(BackendPrimary)
    /\ WF_vars(BackendSecondary)
    /\ WF_vars(MainLoopExit)
    /\ WF_vars(PollTest)
    /\ WF_vars(PollExcept)
    /\ WF_vars(CallbackReturn)
    /\ SF_vars(DetectorExit)

SpecLive == Spec /\ Fairness

(***************************************************************************)
(* The entry points called by a further thread, next to the detector's    *)
(* callbacks: the case the ProcessingGuard is there for.                   *)
(***************************************************************************)
EntryPoints == {"wk_check", "pvc_check", "pct_check"}

\* a caller invokes _on_wake_word_detected, _process_voice_command or
\* _process_command_text(text)
CallerInvoke(t) ==
    /\ ~exited
    /\ pc[t] = "off"
    /\ Len(history) < 2 * MaxTurns
    /\ \E entry \in EntryPoints, text \in Transcripts :
          /\ pc' = [pc EXCEPT ![t] = entry]
          /\ loc' = [loc EXCEPT ![t] =
                        IF entry = "pct_check"
                        THEN Locals(FALSE, text, None, NoResponse, "none")
                        ELSE NoLocals]
    /\ UNCHANGED <<aiVars, processing, status, running, listening_enabled,
                   speaking, capturing, event_loop, ai_owner, client_open,
                   use_advanced_wake, wake_detector, stream, tray_icon,
                   tray_is_listening, exited, capabilities>>

\* the assistant as start() leaves it when the detector drives: the
\* stream delivers callbacks and the main thread idles
InitCallers ==
    /\ AIInit
    /\ max_history = DefaultMaxHistory
    /\ pc = [t \in Threads |-> CASE t = "main" -> "m_idle"
                                 [] t = "detector" -> "cb_wait"
                                 [] OTHER -> "off"]
    /\ loc = [t \in Threads |-> NoLocals]
    /\ processing = FALSE
    /\ status = "idle"
    /\ running = TRUE
    /\ listening_enabled = TRUE
    /\ speaking = [t \in Threads |-> "none"]
    /\ capturing = {}
    /\ event_loop = "open"
    /\ ai_owner = "none"
    /\ client_open = TRUE
    /\ use_advanced_wake = "yes"
    /\ wake_detector = Detector(TRUE, TRUE, TRUE, FALSE)
    /\ stream = "open"
    /\ tray_icon = FALSE
    /\ tray_is_listening = TRUE
    /\ exited = FALSE
    /\ capabilities = AllCapabilities

NextCallers ==
    \/ \E t \in Callers : CallerInvoke(t)
    \/ \E t \in Callers \cup {"detector"} : Handler(t)
    \/ WakeWord
    \/ CallbackReturn
    \/ BackendPrimary
    \/ BackendSecondary

SpecCallers == InitCallers /\ [][NextCallers]_vars


(***************************************************************************)
(* Properties of the turn handlers.                                        *)
(***************************************************************************)
\* the statements of a turn, from the guard's acquisition to the handler's
\* last statement
TurnPcs ==
    PvcTry \cup PctTry \cup
        {"pvc_except", "pvc_finally", "pvc_finally_status", "pct_finally",
         "pct_finally_status"}

\* the statements between the guard's acquisition and its release
HeldPcs == TurnPcs \ {"pvc_finally_status", "pct_finally_status"}

InTurn(t) == pc[t] \in TurnPcs

\* C1: whenever a turn of _process_voice_command or _process_command_text
\* ends, however it ends (reply spoken, capture failed, backend failed, a
\* collaborator raised, Ctrl+C), the step that ends it leaves _processing
\* false and the status sink at idle.
C1_TurnEndsIdle ==
    [][\A t \in Threads :
          InTurn(t) /\ ~InTurn(t)' => ~processing' /\ status' = "idle"]_vars

\* a turn of the polling loop has just ended with an exception
C1_Witness ==
    /\ pc["main"] = "poll_except"
    /\ ~processing
    /\ status = "idle"

\* the variables an activation would touch if it were let through
activationVars == <<history, sent, processing, status, speaking, capturing,
                    event_loop, ai_owner>>

\* C2: an activation that reaches the check of an entry point while the
\* guard is held goes to that entry point's return statement and from there
\* back to its caller, with history, requests, guard, status, speech and
\* capture untouched and nothing of it kept; and a turn only ever starts
\* from a check that found the guard free.
C2_HeldGuardDrops ==
    [][\A t \in Threads :
          /\ pc[t] \in EntryPoints /\ processing /\ pc'[t] # pc[t]
                => pc'[t] \in ReturnPcs /\ UNCHANGED activationVars
          /\ pc[t] \in ReturnPcs /\ pc'[t] # pc[t]
                => /\ pc'[t] = Return(t)
                   /\ loc'[t] = NoLocals
                   /\ UNCHANGED activationVars
          /\ pc'[t] \in {"pvc_set", "pct_set"} /\ pc'[t] # pc[t]
                => pc[t] \in EntryPoints /\ ~processing]_vars

\* a caller stands at the return statement of _process_voice_command while
\* the detector's turn records
C2_Witness ==
    /\ pc["c1"] = "pvc_return"
    /\ processing
    /\ pc["detector"] = "pvc_listening"

\* C3: whenever the status sink shows listening, processing or speaking,
\* the guard is held.
C3_StatusImpliesGuard ==
    status \in {"listening", "processing", "speaking"} => processing

\* C4: among the program's threads at most one is between the guard's
\* acquisition and its release, and at most one is inside listen.
C4_OneTurn ==
    /\ Cardinality({t \in Threads : pc[t] \in HeldPcs}) <= 1
    /\ Cardinality(capturing) <= 1

\* the detector's turn records while the main thread idles and the tray
\* thread is there
C4_Witness ==
    /\ pc["detector"] = "pvc_listening"
    /\ capturing = {"detector"}
    /\ pc["main"] = "m_idle"
    /\ pc["tray"] = "t_idle"
\* C12: in both handlers, when the backend request is about to be issued,
\* the screen description has been fetched exactly when the transcript
\* contains one of the six keywords "screen", "see", "show", "read",
\* "what's on", "look at" (case-insensitively).
C12_KeywordCapturesScreen ==
    \A t \in Threads :
        pc[t] \in {"pvc_call_ai", "pct_call_ai"} =>
            (loc[t].screen_context.some
                <=> MentionsScreen(loc[t].text, VoiceKeywords))

\* the polling loop's handler is about to call the backend for "Look at it"
\* without a screen description
C12_Witness ==
    /\ pc["main"] = "pct_call_ai"
    /\ loc["main"].text = TextLook
    /\ ~loc["main"].screen_context.some

\* C20: in either drive loop, when listen reports a failure the loop goes
\* on to speak the apology, with the history and the requests of the
\* backend untouched.
C20_FailedListenApologises ==
    [][\A t \in Threads :
          (pc[t] \in {"pvc_heard", "poll_heard"} /\ ~loc[t].success
              /\ pc'[t] # pc[t])
          => /\ pc'[t] \in SpeakSites
             /\ Utterance(pc'[t]) = "apology"
             /\ UNCHANGED <<history, sent>>]_vars

\* the polling loop holds a failed result with the reason "Silence"
C20_Witness ==
    /\ pc["main"] = "poll_heard"
    /\ ~loc["main"].success
    /\ loc["main"].text = Silence
    /\ status = "idle"

\* the step takes thread t out of the try block of a turn by an exception:
\* into the except clause of _process_voice_command, or into the finally
\* block of _process_command_text with the exception on its way out
Raised(t) ==
    \/ pc[t] \in PvcTry /\ pc'[t] = "pvc_except"
    \/ /\ pc[t] \in PctTry
       /\ pc'[t] = "pct_finally"
       /\ loc[t].pending = "none"
       /\ loc'[t].pending = "error"

\* C21: in both turn handlers a failure result of the backend is followed
\* by the spoken "no response" utterance and an exception raised inside the
\* turn by the spoken "something went wrong" utterance; the exception does
\* not leave the turn on its way to the caller.
C21_FailureIsAnnounced ==
    [][\A t \in Threads :
          /\ (pc[t] \in {"pvc_await_ai", "pct_await_ai"} /\ pc'[t] # pc[t]
                 /\ ~loc'[t].response.success)
             => (pc'[t] \in SpeakSites /\ Utterance(pc'[t]) = "no_response")
          /\ Raised(t)
             => /\ pc'[t] \in SpeakSites
                /\ Utterance(pc'[t]) = "went_wrong"
                /\ loc'[t].pending = "none"]_vars

\* an exception raised inside _process_command_text is on its way out
\* through the finally block, nothing being spoken
C21_Witness ==
    /\ pc["main"] = "pct_finally"
    /\ loc["main"].pending = "error"
    /\ speaking["main"] = "none"
    /\ processing

\* C22: when an exception occurs during a turn, the status sink shows
\* error before the finally block of the turn writes idle.
C22_ErrorBeforeIdle ==
    [][\A t \in Threads :
          /\ (pc[t] = "pvc_except" /\ pc'[t] = "pvc_finally")
             => status' = "error"
          /\ (pc[t] = "pct_finally_status" /\ loc[t].pending = "error"
                 /\ pc'[t] # pc[t])
             => status = "error"]_vars

\* the finally block is about to write idle after an exception, the sink
\* showing what the turn wrote last
C22_Witness ==
    /\ pc["main"] = "pct_finally_status"
    /\ loc["main"].pending = "error"
    /\ status = "processing"

\* C23: the detector's thread never runs the statements of a turn: it is
\* never inside speak, listen or the backend call, and never at a statement
\* of _process_voice_command or past the check of _on_wake_word_detected.
C23_DetectorOnlyRecords ==
    /\ pc["detector"] \notin PvcPcs \cup {"wk_status", "wk_speak"}
    /\ speaking["detector"] = "none"
    /\ "detector" \notin capturing
    /\ ai_owner # "detector"

\* the backend call of a turn runs on the detector's thread while the main
\* thread sits in its idle loop
C23_Witness ==
    /\ pc["detector"] = "pvc_await_ai"
    /\ ai_owner = "detector"
    /\ pc["main"] = "m_idle"

\* the statements that write _processing
GuardWrites == {"pvc_set", "pct_set", "pvc_finally", "pct_finally"}

\* C24: neither the detector's thread nor the tray's thread executes a
\* statement that writes _processing or calls set_status.
C24_OnlyMainWrites ==
    [][\A t \in ProgramThreads \ {"main"} :
          ~(pc[t] \in GuardWrites \cup StatusSites /\ pc'[t] # pc[t])]_vars

\* the detector's thread has set the guard and is about to call set_status
C24_Witness ==
    /\ pc["detector"] = "pvc_status_listening"
    /\ processing
    /\ pc["main"] = "m_idle"

\* the statements of _run_wake_word_loop
PollPcs == {"poll_test", "poll_listen", "poll_listening", "poll_heard",
            "poll_except"}

\* the main thread is in the polling loop or in a turn it started
PollingLoopActive == pc["main"] \in PollPcs \cup PctPcs

\* the main thread is in the idle loop that leaves activation to the
\* detector's callback
EventLoopActive == pc["main"] = "m_idle"

\* C25: the drive loop is chosen once: use_advanced_wake keeps the value
\* start() gave it, the main thread runs the idle loop only when it is
\* true and the polling loop only when it is false, it never goes from one
\* loop to the other, and while the polling loop runs the detector's
\* thread is never in the wake-word callback or in a turn.
C25_OneDriveLoop ==
    /\ [](EventLoopActive => use_advanced_wake = "yes")
    /\ [](PollingLoopActive =>
             /\ use_advanced_wake = "no"
             /\ pc["detector"] \notin HandlerPcs \cup {"cb_wait", "cb_after"})
    /\ [][/\ use_advanced_wake # "unset"
             => use_advanced_wake' = use_advanced_wake
          /\ EventLoopActive => ~PollingLoopActive'
          /\ PollingLoopActive => ~EventLoopActive']_vars

\* the polling loop records while the detector that was started without a
\* model sits in its simple loop
C25_Witness ==
    /\ pc["main"] = "poll_listening"
    /\ wake_detector.present
    /\ ~wake_detector.use_openwakeword
    /\ pc["detector"] = "d_simple"

C27_WakePhraseRequired ==
    [][(pc["main"] = "poll_heard" /\ pc'["main"] = "pct_check")
          => Contains(Lower(loc["main"].text), WakePhrase)]_vars

\* the polling loop sends the request of a turn whose transcript has no
\* wake phrase in it
C27_Witness ==
    /\ pc["main"] = "pct_await_ai"
    /\ ai_call.user_input = TextRead
    /\ ~Contains(Lower(TextRead), WakePhrase)
    /\ sent # << >>

\* C28: the goodbye is spoken only after the detector has been stopped, at
\* most one thread is inside stop(), and once the tray thread's stop() has
\* finished the main thread does not run stop() again.
C28_OrderlyShutdown ==
    /\ \A t \in Threads :
          speaking[t] = "goodbye" =>
              ~(wake_detector.present /\ wake_detector.is_listening)
    /\ Cardinality({t \in Threads : pc[t] \in StopPcs}) <= 1
    /\ pc["tray"] = "t_done" => pc["main"] \notin StopPcs

\* Quit has run stop() to its end on the tray thread and the main thread,
\* out of its loop, speaks the goodbye again
C28_Witness ==
    /\ pc["tray"] = "t_done"
    /\ event_loop = "closed"
    /\ pc["main"] = "st_goodbye"
    /\ speaking["main"] = "goodbye"

\* C29: once _running is false the main thread leaves its idle loop or its
\* polling loop, once the detector's stop flag is set its listen loop
\* ends, and a thread that holds the guard goes on to release it.
C29_TurnRunsToExit ==
    /\ (~running /\ pc["main"] \in {"m_idle", "poll_test"})
           ~> (pc["main"] \in StopPcs \cup {"m_dead"})
    /\ (wake_detector.stop_flag /\ pc["detector"] \in {"cb_wait", "d_simple"})
           ~> (pc["detector"] = "d_done" \/ exited)
    /\ \A t \in ProgramThreads :
           (pc[t] \in HeldPcs /\ processing) ~> ~processing

\* stop() has run to its end and the process has ended while the
\* detector's thread was in a turn, the guard still set
C29_Witness ==
    /\ exited
    /\ ~running
    /\ event_loop = "closed"
    /\ processing
    /\ pc["detector"] \in HeldPcs

\* the detector's thread can still deliver a wake word
DetectorLive ==
    \/ pc["detector"] \in HandlerPcs \cup {"cb_wait", "cb_after"}
    \/ pc["detector"] = "d_open"

\* C30: while the assistant is running in one of its drive loops, an
\* activation source is live: the main thread polls, or the detector's
\* thread has its stream open or is about to open it.
C30_ActivationSourceLive ==
    (running /\ ~exited /\ (EventLoopActive \/ PollingLoopActive)) =>
        (PollingLoopActive \/ DetectorLive)

\* the stream failed to open in the listen thread; the main thread sits in
\* the idle loop and the detector's thread has ended
C30_Witness ==
    /\ running
    /\ pc["main"] = "m_idle"
    /\ stream = "failed"
    /\ pc["detector"] = "d_done"
    /\ wake_detector.is_listening

\* C32: at most one thread is inside a speak call that synthesises and
\* plays.
C32_OneSpeaker ==
    Cardinality({t \in Threads : speaking[t] # "none"}) <= 1

\* the tray thread announces the toggle while the detector's thread speaks
\* the answer of a turn
C32_Witness ==
    /\ speaking["tray"] = "toggle"
    /\ speaking["detector"] = "answer"

\* C33: in every turn the status goes idle, listening, processing,
\* speaking, idle: a turn writes processing only over listening (or over
\* processing itself), never over idle, and writes speaking only over
\* processing and only once the backend call has succeeded.
C33_StatusGraph ==
    [][\A t \in Threads :
          (pc[t] \in StatusSites \cap TurnPcs /\ pc'[t] # pc[t]) =>
              /\ status' = "processing" => status \in {"listening", "processing"}
              /\ status' = "speaking" =>
                    status = "processing" /\ loc[t].response.success]_vars

\* the polling loop's turn is about to write processing over idle
C33_Witness ==
    /\ pc["main"] = "pct_status_processing"
    /\ status = "idle"
    /\ processing

\* C35: run_until_complete is called on the backend's event loop only
\* while the loop is open: never while another thread's call is running
\* it, and never after stop() has closed it.
C35_LoopDrivenWhileOpen ==
    [][\A t \in Threads :
          (CallAI(t) \/ (StopCleanup(t) /\ event_loop # "none")) =>
              event_loop = "open"]_vars

\* stop() on the main thread reaches its run_until_complete while the
\* detector's turn is inside its own
C35_Witness ==
    /\ pc["main"] = "st_loop_cleanup"
    /\ event_loop = "running"
    /\ ai_owner = "detector"
    /\ ~exited

\* C36: pausing listening from the tray does not end the drive loop: the
\* polling loop's test sends the main thread into stop() only once
\* running has been cleared.
C36_PauseKeepsLoop ==
    [][(PollTest /\ pc'["main"] = "st_running") => ~running]_vars

\* the polling loop has left for stop() with running still set, after the
\* tray paused listening
C36_Witness ==
    /\ pc["main"] = "st_running"
    /\ loc["main"].pending = "none"
    /\ running
    /\ ~listening_enabled
    /\ pc["tray"] \notin StopPcs

\* C37: no turn is started while listening is paused: the guard is
\* acquired, in either mode, only with listening enabled.
C37_NoTurnWhilePaused ==
    [][\A t \in Threads : GuardSet(t) => listening_enabled]_vars

\* the polling loop's transcript came back after the pause and its turn is
\* about to ask the backend
C37_Witness ==
    /\ pc["main"] = "pct_set"
    /\ ~listening_enabled
    /\ tray_is_listening = FALSE
    /\ running

\* stop() has executed its first statement on some thread
StopFlagSet ==
    \E t \in Threads : pc[t] \in (StopPcs \ {"st_running"}) \cup {"m_dead", "t_done"}

\* C38: once stop() has cleared running, no activation starts a turn: a
\* wake-word callback is refused and no handler acquires the guard.
C38_NoTurnAfterStop ==
    [][\A t \in Threads :
          /\ (WakeCheck(t) /\ StopFlagSet) => pc'[t] = "wk_return"
          /\ GuardSet(t) => ~StopFlagSet]_vars

\* the wake-word callback has been let through while stop() speaks the
\* goodbye
C38_Witness ==
    /\ pc["main"] = "st_goodbye"
    /\ speaking["main"] = "goodbye"
    /\ pc["detector"] = "wk_speak"
    /\ ~processing

\* C31: when audio capture or speech synthesis is missing at startup, the
\* process never enters a drive loop.
C31_MissingCapabilityExits ==
    capabilities # AllCapabilities => ~(EventLoopActive \/ PollingLoopActive)

\* without a microphone the polling loop is inside listen
C31_Witness ==
    /\ ~capabilities.capture
    /\ pc["main"] = "poll_listening"
    /\ running

\* why a call of listen fails: no recording, a silent one, the two
\* exceptions of the recognizer, any other exception
Cause(c) == IF c.recording = "audible" THEN c.recognition ELSE c.recording

\* C34: listen never raises: whatever the recording and the recognition
\* do, the call returns a pair to its caller, with is_listening() false
\* again; a failure comes back as (False, reason), and the reasons for no
\* speech, unintelligible speech and a service error differ from one
\* another.
C34_ListenReturnsFailures ==
    [][\A t \in Threads :
          ListenEnd(t) =>
              /\ pc'[t] \in {"pvc_heard", "poll_heard"}
              /\ t \notin capturing'
              /\ loc'[t].pending = "none"
              /\ \A c \in Circumstances(capabilities.capture) :
                    LET r == Listen(c)
                    IN /\ ~r.raised
                       /\ r.success <=> c.recognition = "text"
                       /\ \A d \in Circumstances(capabilities.capture) :
                             (~r.success /\ r.text = Listen(d).text) =>
                                 Cause(c) = Cause(d)]_vars

\* the turn holds the failure the recognition service caused, and nobody
\* is inside listen any more
C34_Witness ==
    /\ pc["detector"] = "pvc_heard"
    /\ ~loc["detector"].success
    /\ loc["detector"].text = FailureReason("request_error")
    /\ capturing = {}

\* C39: the detector's stop is a no-op when it is not listening, leaves
\* is_listening() false and, when it was listening, the stop flag set;
\* and once stop has returned, the listen thread it was meant to end
\* invokes the activation callback no more.
C39_StoppedDetectorIsQuiet ==
    [][/\ \A t \in Threads :
             StopDetector(t) =>
                 /\ ~wake_detector'.is_listening
                 /\ wake_detector.is_listening => wake_detector'.stop_flag
                 /\ ~wake_detector.is_listening =>
                       wake_detector' = wake_detector
       /\ WakeWord => ~wake_detector.stop_flag]_vars

\* stop() has returned and the detector's thread is in the callback
C39_Witness ==
    /\ wake_detector.stop_flag
    /\ ~wake_detector.is_listening
    /\ pc["detector"] = "wk_check"
    /\ pc["main"] = "st_tray"
    /\ ~exited

(***************************************************************************)
(* Properties of the backend client (checked under SpecAI).                *)
(***************************************************************************)
Returned == ai_pc = "returned"

\* C5: a get_response call that returns success=False leaves the
\* conversation history exactly as it was before the call: no user turn
\* and no assistant turn is appended.
C5_FailureLeavesHistory ==
    (Returned /\ ~ai_result.success) => history = history_at_call

C5_Witness ==
    /\ Returned
    /\ ~ai_result.success
    /\ Len(sent) = 2
    /\ history_at_call # << >>

\* C6: after any sequence of get_response and clear_history calls the
\* history has even length and alternates user, assistant; a successful call
\* appends exactly the pair (instruction, sanitized answer), in that order,
\* after the unchanged earlier turns.
C6_HistoryPaired ==
    /\ Len(history) % 2 = 0
    /\ \A i \in 1..Len(history) :
          history[i].role = (IF i % 2 = 1 THEN "user" ELSE "assistant")
    /\ (Returned /\ ai_result.success) =>
          /\ history = history_at_call
                 \o <<Message("user", ai_call.user_input),
                      Message("assistant", ai_result.content)>>
          /\ ai_result.content = Sanitized(replies[Len(replies)].body)

C6_Witness ==
    /\ Returned
    /\ ai_result.success
    /\ Len(history_at_call) >= 2
    /\ history[Len(history) - 1].content # history[1].content

\* C7: the history turns of every request built are exactly the most recent
\* min(len(history), N) stored turns, oldest first, so at most N of them;
\* the turns older than the window stay stored through the call.
C7_WindowIsMostRecent ==
    sent # << >> =>
        LET msgs == sent[1].messages
            h == history_at_call
            k == IF Len(h) < max_history THEN Len(h) ELSE max_history
        IN /\ Len(msgs) = k + 2
           /\ Len(msgs) - 2 <= max_history
           /\ \A i \in 1..k : msgs[i + 1] = h[Len(h) - k + i]
           /\ Len(history) >= Len(h)
           /\ \A i \in 1..Len(h) : history[i] = h[i]

C7_Witness ==
    /\ Returned
    /\ ai_result.success
    /\ Len(history_at_call) > max_history
    /\ Len(history) = Len(history_at_call) + 2

\* C8: for any configured maximum N, odd N included, and any history longer
\* than N, the rendered window consists of whole (user, assistant) pairs:
\* it starts with a user turn whose assistant turn follows it.
C8_WindowWholePairs ==
    (sent # << >> /\ Len(history_at_call) > max_history) =>
        LET msgs == sent[1].messages
            k == Len(msgs) - 2
        IN /\ k % 2 = 0
           /\ \A i \in 1..k :
                 msgs[i + 1].role = (IF i % 2 = 1 THEN "user" ELSE "assistant")

ReplyFailed(o) == o.kind # "status" \/ o.code < 200 \/ o.code > 299

\* C9: a 404 on the /chat request is followed by exactly one /generate
\* request and none after it; any other primary outcome by none; when the
\* /generate request fails too the call returns a failure.  No call sends
\* more than two requests.
C9_SingleFallback ==
    /\ Len(sent) <= 2
    /\ Len(replies) <= Len(sent)
    /\ sent # << >> => sent[1].endpoint = "chat"
    /\ Len(sent) = 2 <=>
          (replies # << >> /\ replies[1].kind = "status"
                           /\ replies[1].code = 404)
    /\ Len(sent) = 2 => sent[2].endpoint = "generate"
    /\ (Returned /\ Len(replies) = 2 /\ ReplyFailed(replies[2])) =>
          ~ai_result.success

C9_Witness ==
    /\ Returned
    /\ Len(sent) = 2
    /\ Len(replies) = 2
    /\ ReplyFailed(replies[2])

\* C10: get_response returns an AIResponse for every outcome of the
\* backend, and a failure carries success=False and a non-empty error.
C10_FailureHasError ==
    Returned =>
        \/ ai_result.success
        \/ (ai_result.error.some /\ ai_result.error.text # << >>)


\* C11: a 2xx reply whose JSON body has neither a "message" nor a "response"
\* field makes get_response return a failure and leaves the history as it
\* was.
C11_UnknownEnvelopeFails ==
    (/\ Returned
     /\ replies # << >>
     /\ replies[Len(replies)].kind = "status"
     /\ IsSuccessStatus(replies[Len(replies)].code)
     /\ replies[Len(replies)].body.shape = "other") =>
        (~ai_result.success /\ history = history_at_call)

\* such a reply has been answered with a success that speaks str(data)
C11_Witness ==
    /\ Returned
    /\ replies # << >>
    /\ replies[Len(replies)].body.shape = "other"
    /\ ai_result.success
    /\ ai_result.content = StrOfData
    /\ Len(history) = Len(history_at_call) + 2


\* the bracketed annotation of a screen context: the prefix, the first
\* 200 characters, the closing bracket
Bracketed(screen_text) ==
    ScreenPrefix
        \o [i \in 1..(IF Len(screen_text) < ScreenContextCap
                      THEN Len(screen_text) ELSE ScreenContextCap)
                |-> screen_text[i]]
        \o <<"]">>

\* C13: whenever a (non-empty) screen context is passed to get_response,
\* every request of the call carries it as the bracketed prefix cut to 200
\* characters: the /chat request as the start of its last message, followed
\* by the user's words, and the /generate request inside its prompt.
C13_ScreenPrefixSent ==
    Truthy(ai_call.screen_context) =>
        \A i \in 1..Len(sent) :
            IF sent[i].endpoint = "chat"
            THEN sent[i].messages[Len(sent[i].messages)].content
                     = Bracketed(ai_call.screen_context.text)
                           \o <<"\n">> \o ai_call.user_input
            ELSE Contains(sent[i].prompt,
                          Bracketed(ai_call.screen_context.text))

\* a /generate request has been sent for a call with a screen context, and
\* its prompt holds no screen annotation at all
C13_Witness ==
    /\ Truthy(ai_call.screen_context)
    /\ Len(sent) = 2
    /\ sent[2].endpoint = "generate"
    /\ ~Contains(sent[2].prompt, ScreenPrefix)


\* C14: every request of a call carries the system instruction first, then
\* the context window (the most recent turns of the history as it was at
\* the call, oldest first), then the current instruction last: as the
\* message list of a /chat request, and in that order inside the prompt of
\* a /generate request.
C14_RequestCarriesWindow ==
    \A i \in 1..Len(sent) :
        LET h == history_at_call
            k == IF Len(h) < max_history THEN Len(h) ELSE max_history
            window == [j \in 1..k |-> h[Len(h) - k + j]]
        IN IF sent[i].endpoint = "chat"
           THEN LET msgs == sent[i].messages
                IN /\ Len(msgs) = k + 2
                   /\ msgs[1] = Message("system", SystemPrompt)
                   /\ \A j \in 1..k : msgs[j + 1] = window[j]
                   /\ msgs[k + 2].role = "user"
                   /\ EndsWith(msgs[k + 2].content, ai_call.user_input)
           ELSE LET prompt == sent[i].prompt
                IN /\ StartsWith(prompt, SystemPrompt)
                   /\ \A j \in 1..k : Contains(prompt, window[j].content)
                   /\ Contains(prompt, ai_call.user_input)

\* a /generate request has been sent while the history held an exchange,
\* and its prompt holds none of the stored answer
C14_Witness ==
    /\ Len(sent) = 2
    /\ sent[2].endpoint = "generate"
    /\ Len(history_at_call) >= 2
    /\ ~Contains(sent[2].prompt, history_at_call[2].content)

(***************************************************************************)
(* Properties of the sanitizer (checked under SpecSanitize): the raw text  *)
(* is the message content of the last reply, the result is the content of  *)
(* the successful response.                                                *)
(***************************************************************************)
RawText == replies[Len(replies)].body.text

SanitizerRan == Returned /\ replies # << >> /\ ai_result.success

\* C15: the sanitizer returns non-empty text for every input, the empty
\* text, whitespace-only texts and texts whose only quoted span is made of
\* whitespace included.
C15_ResultNonEmpty == SanitizerRan => ai_result.content # << >>

\* a quoted span of five spaces comes back as the empty text
C15_Witness ==
    /\ SanitizerRan
    /\ RawText = <<Quote>> \o Repeat(" ", MinQuoteLen) \o <<Quote>>
    /\ ai_result.content = << >>

\* C16: the result is at most 200 characters long for every input, and a
\* one-line text that came back shorter ends at sentence-ending
\* punctuation.
C16_ResultWithinCap ==
    SanitizerRan =>
        /\ Len(ai_result.content) <= MaxAnswerLen
        /\ (/\ Len(RawText) > MaxAnswerLen
            /\ ~Contains(RawText, <<"\n">>)
            /\ Len(ai_result.content) < Len(Strip(RawText))) =>
               ai_result.content[Len(ai_result.content)] \in SentenceEnd

\* a text of 201 letters without punctuation comes back whole
C16_Witness ==
    /\ SanitizerRan
    /\ RawText = Repeat("a", MaxAnswerLen + 1)
    /\ ai_result.content = RawText

\* the text ends with a double-quoted span of 5 to 100 characters
EndsWithQuotedSpan(s) ==
    /\ Len(s) >= 2
    /\ s[Len(s)] = Quote
    /\ \E j \in 1..(Len(s) - 1) :
           /\ s[j] = Quote
           /\ \A k \in (j + 1)..(Len(s) - 1) : s[k] # Quote
           /\ Len(s) - 1 - j >= MinQuoteLen
           /\ Len(s) - 1 - j <= MaxQuoteLen

\* the characters between the last two quote characters
TrailingSpan(s) ==
    LET j == CHOOSE j \in 1..(Len(s) - 1) :
                 s[j] = Quote /\ \A k \in (j + 1)..(Len(s) - 1) : s[k] # Quote
    IN SubSeq(s, j + 1, Len(s) - 1)

\* C17: for every raw text that ends with a double-quoted span of 5 to 100
\* characters, whatever quote characters precede it, the result is that
\* span's content with the surrounding whitespace trimmed.
C17_TrailingSpanReturned ==
    (SanitizerRan /\ EndsWithQuotedSpan(RawText)) =>
        ai_result.content = Strip(TrailingSpan(RawText))

\* after a shorter quoted span the text between the two spans is returned
C17_Witness ==
    /\ SanitizerRan
    /\ RawText = <<"\"","h","i","\""," ","t","h","e","n"," ","\"","h","e","l","l","o","\"">>
    /\ ai_result.content = <<"t","h","e","n">>

\* C18: for every raw text without a quoted span of 5 to 100 characters in
\* which the line filter discards every non-blank line, the result is the
\* canned filler.
C18_AllDiscardedGivesFiller ==
    (/\ SanitizerRan
     /\ QuotedSpans(RawText, 1, << >>) = << >>
     /\ CleanLines(RawText) = << >>) =>
        ai_result.content = Filler

\* a text that is one reasoning line comes back as it is
C18_Witness ==
    /\ SanitizerRan
    /\ RawText = <<"H","m","m">>
    /\ ai_result.content = RawText

\* the smallest member of a non-empty set of numbers
Least(S) == CHOOSE i \in S : \A k \in S : i <= k

\* C19: when the raw text has no quoted span of 5 to 100 characters and at
\* least one line survives the line filter, the result is the cleaned-up
\* and length-limited form of the first surviving line that is longer than
\* 3 characters and does not end with a colon, or of the first surviving
\* line if none qualifies.
C19_FirstAnswerLine ==
    (/\ SanitizerRan
     /\ QuotedSpans(RawText, 1, << >>) = << >>
     /\ CleanLines(RawText) # << >>) =>
        LET surviving == CleanLines(RawText)
            qualifying == {i \in 1..Len(surviving) :
                               /\ Len(surviving[i]) > 3
                               /\ surviving[i][Len(surviving[i])] # ":"}
            line == IF qualifying = {} THEN surviving[1]
                    ELSE surviving[Least(qualifying)]
            derived == LimitLength(Cleanup(line))
        IN ai_result.content = IF derived = << >> THEN Filler ELSE derived

\* a reasoning line is discarded, a short surviving line is passed over and
\* the answer line after them is returned
C19_Witness ==
    /\ SanitizerRan
    /\ RawText = <<"H","m","m","\n","N","o","\n","I","t"," ","i","s"," ","5",".">>
    /\ ai_result.content = <<"I","t"," ","i","s"," ","5",".">>

=============================================================================
